---- MODULE Spec2Model ----
(***************************************************************************)
(* Message lifecycle core of the WhatsApp messaging backend:                *)
(* ClientService credit operations, WhatsAppService send pipeline,          *)
(* reconcile (syncAllMessages), retention trim (cleanupOldMessages) and     *)
(* MessageHandlerService inbound/outbound handlers.                         *)
(*                                                                         *)
(* Every asynchronous operation runs in a call slot; one action is the      *)
(* code between two awaits that touch shared state (store, provider,        *)
(* in-memory handle map).  Awaits that only write audit logs are folded     *)
(* into the step before them.                                               *)
(***************************************************************************)
EXTENDS Integers, Sequences, FiniteSets, TLC

\* ---------------------------------------------------------------- bounds
MaxOps == 2          \* operations started by callers / provider events
MaxProv == 2         \* provider-side messages created in one run
MaxBulk == 2         \* longest sendBulk address list
MaxAmount == 2       \* largest amount of increment / decrement
MaxCredits == 2      \* largest balance in the store at start-up
PreRows == 19        \* Message rows already in the store at start-up
MaxHistory == 22     \* longest provider history at the start of StoreSpec
MaxMissing == 2      \* history messages missing from the store at that start
MaxLimit == 3        \* largest page of a thread query
MaxOffset == 2       \* largest offset of a thread query

\* ------------------------------------------------------ program constants
requiredCredits == 1 \* sendMessage: 1 credit per message
maxRetries == 3      \* provider send attempts per recipient
KeepSkip == 19       \* cleanupOldMessages: skip 19 to get the 20th
DefaultStatus == "PENDING"

Clients == {"c1"}
Slots == {1, 2}      \* two operations can be in flight at the same time
NullId == 0
NotRead == -1
StartTime == PreRows + 1

\* Contact table (admin CRUD is out of scope, the table is fixed):
\* p1 is a contact of c1, p2 is a contact of another tenant, p3 has no row.
Contacts == { [phone_number |-> "p1", clientId |-> "c1"],
              [phone_number |-> "p2", clientId |-> "c2"] }
Phones == {"p1", "p2", "p3"}
BulkOrder == <<"p1", "p3", "p2", "p1">>
BulkAddrs(n) == SubSeq(BulkOrder, 1, n)

VARIABLES
    credits,      \* user.credits per tenant
    creditLog,    \* creditLog rows per tenant, in creation order
    messages,     \* Message rows
    sessions,     \* WhatsAppSession status per tenant ("absent" = no row)
    clients,      \* WhatsAppService.clients: handle state per tenant: "none",
                  \* "init" (no info yet), "ready", "closed" (the provider
                  \* has closed the connection, the handle keeps its info)
    provMsgs,     \* messages the provider holds for the tenant's account
    calls,        \* per slot: the operation in flight and its locals
    opsStarted,   \* number of operations started
    restored,     \* ran: restoreActiveSessions has run; resync: the tenants
                  \* its resync timer has still to reconcile
    sessionDups,  \* WhatsAppSession rows per tenant beyond the one that
                  \* sessions describes
    orphans,      \* tenants with a provider connection that was taken out
                  \* of the registry and never destroyed
    rooms,        \* WhatsAppGateway: the rooms each front-end socket is in
    received,     \* the events each front-end socket has been sent
    inbound       \* tenants whose handle has a 'message' event to deliver

\* the state of the fan-out channel and of the provider between tenants
pairVars == <<rooms, received, inbound>>

vars == <<credits, creditLog, messages, sessions, clients, provMsgs,
          calls, opsStarted, restored, sessionDups, orphans, pairVars>>

\* front-end sockets, and the two tenants they subscribe to
Sockets == {"k1", "k2"}
Tenants == {"A", "B"}

\* no duplicate session row, no dropped connection, no front-end
QuietInit ==
    /\ sessionDups = [c \in Clients |-> 0]
    /\ orphans = {}
    /\ rooms = [k \in Sockets |-> {}]
    /\ received = [k \in Sockets |-> {}]
    /\ inbound = {}

\* ---------------------------------------------------------------- helpers
SignedAmount(e) == IF e.type = "INCREMENT" THEN e.amount ELSE 0 - e.amount

RECURSIVE LedgerSum(_)
LedgerSum(log) ==
    IF log = <<>> THEN 0 ELSE SignedAmount(Head(log)) + LedgerSum(Tail(log))

RECURSIVE SetToSeq(_)
SetToSeq(S) ==
    IF S = {} THEN <<>>
    ELSE LET m == CHOOSE x \in S : \A y \in S : x <= y
         IN <<m>> \o SetToSeq(S \ {m})

\* locals of a call; creditsRead = NotRead until the call reads the balance.
\* attempts, sends, debited, ledgered, rows, synced, events and dupBlocked
\* record what the call has done so far; initFailed: client.initialize()
\* rejected in this call; initLog: the Log rows initializeClient wrote.
Idle == [op |-> "none", pc |-> "idle", clientId |-> "c1", amount |-> 0,
         phones |-> <<>>, idx |-> 0, creditsRead |-> NotRead, retryCount |-> 0,
         sentMsg |-> NullId, todo |-> <<>>, ret |-> "done",
         results |-> <<>>, successfulMessages |-> 0, result |-> "none",
         attempts |-> 0, sends |-> 0, debited |-> 0, ledgered |-> <<>>,
         rows |-> 0, synced |-> 0, events |-> 0, dupBlocked |-> 0,
         statusRead |-> "none", limit |-> 0, offset |-> 0, thread |-> <<>>,
         body |-> "", type |-> "none", handleRead |-> "none",
         error |-> "none", logFailed |-> FALSE, passDone |-> FALSE,
         ack |-> 0, initFailed |-> FALSE, initLog |-> <<>>,
         status |-> "none"]

\* a finished operation hands its result to the caller before anything else
\* runs; At(s, label): slot s is at the await named label
NoneDone == \A s \in Slots : calls[s].pc # "done"
At(s, label) == NoneDone /\ calls[s].pc = label
Free(s) == calls[s].pc = "idle"
\* a new operation takes the lowest free slot
CanStart(s) == /\ NoneDone
               /\ Free(s)
               /\ \A t \in Slots : t < s => ~Free(t)
               /\ opsStarted < MaxOps

Begin(s, rec) == /\ calls' = [calls EXCEPT ![s] = rec]
                 /\ opsStarted' = opsStarted + 1

Finish(rec, res) ==
    [rec EXCEPT !.pc = "done", !.result = res, !.todo = <<>>,
                !.ret = "done", !.idx = 0, !.retryCount = 0]

\* the return statement of an operation: the slot is free again
Return(s) ==
    /\ calls[s].pc = "done"
    /\ calls' = [calls EXCEPT ![s] = Idle]
    /\ UNCHANGED <<credits, creditLog, messages, sessions, clients, provMsgs,
                   opsStarted, restored, sessionDups, orphans, pairVars>>

\* pre-existing rows: the two oldest share a timestamp
OldTs(i) == IF i = 1 THEN 1 ELSE i - 1
OldRow(c, i) == [messageId |-> 100 + i, copy |-> 0, clientId |-> c,
                 timestamp |-> OldTs(i), direction |-> "INBOUND",
                 status |-> DefaultStatus]

\* ------------------------------------------------------------------- Init
Init ==
    /\ credits = [c \in Clients |-> MaxCredits]
    /\ creditLog = [c \in Clients |->
          <<[type |-> "INCREMENT", amount |-> MaxCredits]>>]
    /\ messages = {OldRow(c, i) : c \in Clients, i \in 1..PreRows}
    /\ sessions = [c \in Clients |-> "active"]
    /\ clients = [c \in Clients |-> "none"]
    /\ provMsgs = {}
    /\ calls = [s \in Slots |-> Idle]
    /\ opsStarted = 0
    /\ restored = [ran |-> FALSE, resync |-> {}]
    /\ QuietInit

\* ------------------------------------------------------ ClientService
incrementCreditsStart(s, c, amt) ==
    /\ CanStart(s)
    /\ Begin(s, [Idle EXCEPT !.op = "incrementCredits", !.pc = "inc_update",
                             !.clientId = c, !.amount = amt])
    /\ UNCHANGED <<credits, creditLog, messages, sessions, clients, provMsgs,
                   restored, sessionDups, orphans, pairVars>>

\* prisma.user.update({ credits: { increment: amount } })
incrementCreditsUpdate(s) ==
    /\ At(s, "inc_update")
    /\ credits' = [credits EXCEPT ![calls[s].clientId] = @ + calls[s].amount]
    /\ calls' = [calls EXCEPT ![s].pc = "inc_log"]
    /\ UNCHANGED <<creditLog, messages, sessions, clients, provMsgs,
                   opsStarted, restored, sessionDups, orphans, pairVars>>

\* prisma.creditLog.create({ type: 'INCREMENT' })
incrementCreditsLog(s) ==
    /\ At(s, "inc_log")
    /\ creditLog' = [creditLog EXCEPT ![calls[s].clientId] =
           Append(@, [type |-> "INCREMENT", amount |-> calls[s].amount])]
    /\ calls' = [calls EXCEPT ![s] = Finish(@, "success")]
    /\ UNCHANGED <<credits, messages, sessions, clients, provMsgs,
                   opsStarted, restored, sessionDups, orphans, pairVars>>

decrementCreditsStart(s, c, amt) ==
    /\ CanStart(s)
    /\ Begin(s, [Idle EXCEPT !.op = "decrementCredits", !.pc = "dec_read",
                             !.clientId = c, !.amount = amt])
    /\ UNCHANGED <<credits, creditLog, messages, sessions, clients, provMsgs,
                   restored, sessionDups, orphans, pairVars>>

\* balance tests that a slip in the comparison would give: one credit is
\* asked for whatever the number of recipients; the test is off by one
SingleCreditCheck(available, required) == available < 1
OffByOneCheck(available, required) == available + 1 < required

\* the balance test of decrementCredits, sendMessage and sendBulkMessage
InsufficientCredits(available, required) == available < required

\* prisma.user.findUnique and the balance test
decrementCreditsRead(s) ==
    /\ At(s, "dec_read")
    /\ LET c == calls[s].clientId IN
       calls' = [calls EXCEPT ![s] =
          IF InsufficientCredits(credits[c], calls[s].amount)
          THEN Finish([@ EXCEPT !.creditsRead = credits[c]], "insufficient")
          ELSE [@ EXCEPT !.pc = "dec_update", !.creditsRead = credits[c]]]
    /\ UNCHANGED <<credits, creditLog, messages, sessions, clients, provMsgs,
                   opsStarted, restored, sessionDups, orphans, pairVars>>

\* prisma.user.update({ credits: { decrement: amount } })
decrementCreditsUpdate(s) ==
    /\ At(s, "dec_update")
    /\ credits' = [credits EXCEPT ![calls[s].clientId] = @ - calls[s].amount]
    /\ calls' = [calls EXCEPT ![s].pc = "dec_log",
                              ![s].debited = calls[s].amount]
    /\ UNCHANGED <<creditLog, messages, sessions, clients, provMsgs,
                   opsStarted, restored, sessionDups, orphans, pairVars>>

\* prisma.creditLog.create({ type: 'DECREMENT' })
decrementCreditsLog(s) ==
    /\ At(s, "dec_log")
    /\ LET e == [type |-> "DECREMENT", amount |-> calls[s].amount] IN
       /\ creditLog' = [creditLog EXCEPT ![calls[s].clientId] = Append(@, e)]
       /\ calls' = [calls EXCEPT ![s] =
             Finish([@ EXCEPT !.ledgered = <<e>>], "success")]
    /\ UNCHANGED <<credits, messages, sessions, clients, provMsgs,
                   opsStarted, restored, sessionDups, orphans, pairVars>>

\* ------------------------------------------------------ the store
\* a store without the unique index on messageId
NoUniqueIndex(mid) == FALSE

\* Message.messageId is a unique column: a second row with the same
\* non-null messageId is rejected by the store
UniqueViolation(mid) ==
    mid # NullId /\ \E r \in messages : r.messageId = mid

FreeCopy(mid) ==
    CHOOSE k \in 0..Cardinality(messages) :
        /\ \A r \in messages : r.messageId = mid => r.copy # k
        /\ \A j \in 0..(k - 1) :
              \E r \in messages : r.messageId = mid /\ r.copy = j

\* the row prisma.message.create writes
NewRow(c, mid, ts, dir, st) ==
    [messageId |-> mid, copy |-> FreeCopy(mid), clientId |-> c,
     timestamp |-> ts, direction |-> dir, status |-> st]

\* a dedup lookup that never finds a row
NothingStored(c, mid) == FALSE

\* prisma.message.findFirst({ where: { clientId, messageId } })
ExistsMessage(c, mid) ==
    \E r \in messages : r.clientId = c /\ r.messageId = mid

\* cleanupOldMessages: timestamp of the row found by
\* orderBy timestamp desc, skip 19; 0 when there is no such row
TwentiethTimestamp(rows) ==
    LET ts == {r.timestamp : r \in rows}
        hit == {t \in ts :
                  /\ Cardinality({r \in rows : r.timestamp > t}) <= KeepSkip
                  /\ Cardinality({r \in rows : r.timestamp >= t}) > KeepSkip}
    IN IF hit = {} THEN 0 ELSE CHOOSE t \in hit : TRUE

\* cleanupOldMessages: deleteMany({ clientId, timestamp: { lt: twentieth } });
\* the lookup and the delete are taken as one step
cleanupOldMessages(rows, c) ==
    LET mine == {r \in rows : r.clientId = c}
        t == TwentiethTimestamp(mine)
    IN {r \in rows : ~(r.clientId = c /\ r.timestamp < t)}

\* a status update that never moves a message back in its delivery
KeepNewerStatus(rows, mid, st) ==
    LET rank == [x \in {"FAILED", "PENDING", "SENT", "DELIVERED", "READ"} |->
                   CASE x = "FAILED" -> 0 [] x = "PENDING" -> 1
                     [] x = "SENT" -> 2 [] x = "DELIVERED" -> 3
                     [] OTHER -> 4]
    IN {IF r.messageId = mid /\ rank[st] > rank[r.status]
        THEN [r EXCEPT !.status = st] ELSE r : r \in rows}

\* a status update without the where clause
UpdateEveryRow(rows, mid, st) == {[r EXCEPT !.status = st] : r \in rows}

\* updateMessageStatus: updateMany({ where: { messageId }, data: { status } })
updateMessageStatus(rows, mid, st) ==
    {IF r.messageId = mid THEN [r EXCEPT !.status = st] ELSE r : r \in rows}

\* message_ack handler: provider ack code to MessageStatus
AckStatus(ack) ==
    CASE ack = 0 -> "PENDING"
      [] ack = 1 -> "SENT"
      [] ack = 2 -> "DELIVERED"
      [] ack = 3 -> "READ"
      [] ack = -1 -> "FAILED"
      [] OTHER -> "PENDING"

\* the message_ack handler on the stored rows: the status mapped from the
\* ack code, then updateMessageStatus
messageAckPass(rows, mid, ack) == updateMessageStatus(rows, mid, AckStatus(ack))

\* ------------------------------------------------------ the provider
\* the provider numbers its messages and stamps them with its clock, which
\* advances with every message; new Date() is later than every message
NextProvId == Cardinality(provMsgs) + 1
ProvHasRoom == Cardinality(provMsgs) < MaxProv
ProvMsg(c, me) ==
    [messageId |-> NextProvId, clientId |-> c,
     timestamp |-> StartTime + Cardinality(provMsgs), fromMe |-> me,
     replyTo |-> NullId]
\* the auto-reply to a stored message has room after the last message
ReplyHasRoom == Cardinality(provMsgs) <= MaxProv
ProvById(mid) == CHOOSE m \in provMsgs : m.messageId = mid
NewDate == StartTime + Cardinality(provMsgs) + 1

\* ------------------------------------------------------ session registry
\* an initialization that leaves the handle of a failed connection in the
\* registry
KeepFailedHandle(c, ok) ==
    IF clients[c] # "none" THEN <<clients, sessions, <<>>>>
    ELSE <<[clients EXCEPT ![c] = "init"],
           [sessions EXCEPT ![c] = IF ok THEN "active" ELSE "failed"],
           IF ok THEN <<>> ELSE <<"client_initialization_error">>>>

\* initializeClient: no-op when a handle is registered; otherwise register a
\* handle and await client.initialize(); ok = initialize() resolved.  When
\* it rejects: clients.delete, updateSession(failed), log.create.
\* Yields the new <<clients, sessions>> and the Log rows written.
initializeClient(c, ok) ==
    IF clients[c] # "none" THEN <<clients, sessions, <<>>>>
    ELSE IF ok
         THEN <<[clients EXCEPT ![c] = "init"],
                [sessions EXCEPT ![c] = "active"], <<>>>>
         ELSE <<[clients EXCEPT ![c] = "none"],
                [sessions EXCEPT ![c] = "failed"],
                <<"client_initialization_error">>>>

\* a startup that reconnects every tenant, whatever its status
AllSessions == Clients

\* restoreActiveSessions: whatsAppSession.findMany({ status: 'active' })
ActiveSessions == {c \in Clients : sessions[c] = "active"}

\* restoreActiveSessions, run by the constructor: initializeClient for
\* each session found active (oks[c] = initialize() resolved for c), then
\* the timer of the delayed resync of these sessions is set
restoreActiveSessions(oks) ==
    /\ NoneDone
    /\ ~restored.ran
    /\ restored' = [ran |-> TRUE, resync |-> ActiveSessions]
    /\ clients' = [c \in Clients |->
          IF c \in ActiveSessions THEN initializeClient(c, oks[c])[1][c]
          ELSE clients[c]]
    /\ sessions' = [c \in Clients |->
          IF c \in ActiveSessions THEN initializeClient(c, oks[c])[2][c]
          ELSE sessions[c]]
    /\ UNCHANGED <<credits, creditLog, messages, provMsgs, calls, opsStarted,
                   sessionDups, orphans, pairVars>>

\* provider 'ready' event: updateSession(active, meNumber), status event,
\* then syncAllMessages
providerReady(s, c) ==
    /\ NoneDone
    /\ clients[c] = "init"
    /\ Free(s) /\ \A t \in Slots : t < s => ~Free(t)
    /\ clients' = [clients EXCEPT ![c] = "ready"]
    /\ sessions' = [sessions EXCEPT ![c] = "active"]
    /\ calls' = [calls EXCEPT ![s] =
          [Idle EXCEPT !.op = "ready", !.pc = "sync_fetch", !.clientId = c]]
    /\ UNCHANGED <<credits, creditLog, messages, provMsgs, opsStarted,
                   restored, sessionDups, orphans, pairVars>>

\* autoSyncMessages: the cooldown guard looks for a Log row of type
\* 'message_sync' younger than 5 minutes; no code path writes such a row
LastSyncRecent(c) == FALSE

\* a health check that takes a handle that is not ready for healthy
KeepNotReadyHandle(c, ok) ==
    IF clients[c] = "none" THEN initializeClient(c, ok)
    ELSE <<clients, sessions, <<>>>>

\* checkAndReconnectClient: no handle: initializeClient; a handle without
\* info: clients.delete, then initializeClient registers a new one; else
\* healthy.  Yields the new <<clients, sessions>> and the Log rows written.
reconnectClient(c, ok) ==
    CASE clients[c] = "none" -> initializeClient(c, ok)
      [] clients[c] = "init" ->
           IF ok THEN <<[clients EXCEPT ![c] = "init"],
                        [sessions EXCEPT ![c] = "active"], <<>>>>
           ELSE <<[clients EXCEPT ![c] = "none"],
                  [sessions EXCEPT ![c] = "failed"],
                  <<"client_initialization_error">>>>
      [] OTHER -> <<clients, sessions, <<>>>>

\* checkAndReconnectClient on a handle without info: clients.delete takes
\* the handle out of the registry; the connection itself is not destroyed
\* and keeps its event handlers
DroppedBy(c) == IF clients[c] = "init" THEN {c} ELSE {}

\* checkAndReconnectClient, the first step of every send, and the guards of
\* autoSyncMessages (handle ready, cooldown)
checkAndReconnectClient(s, ok) ==
    /\ At(s, "health")
    /\ LET c == calls[s].clientId
           r == reconnectClient(c, ok) IN
       /\ clients' = r[1]
       /\ sessions' = r[2]
       /\ calls' = [calls EXCEPT
             ![s].pc = IF clients[c] = "ready" /\ ~LastSyncRecent(c)
                       THEN "sync_fetch" ELSE calls[s].ret,
             ![s].initFailed = clients[c] \in {"none", "init"} /\ ~ok,
             ![s].initLog = r[3]]
       /\ orphans' = orphans \cup DroppedBy(c)
    /\ UNCHANGED <<credits, creditLog, messages, provMsgs, opsStarted,
                   restored, sessionDups, pairVars>>

\* ------------------------------------------------------ reconcile
syncAllMessagesStart(s, c) ==
    /\ CanStart(s)
    /\ Begin(s, [Idle EXCEPT !.op = "syncAllMessages", !.pc = "sync_fetch",
                             !.clientId = c])
    /\ UNCHANGED <<credits, creditLog, messages, sessions, clients, provMsgs,
                   restored, sessionDups, orphans, pairVars>>

\* the fetched messages from the first one that is not stored yet
RECURSIVE SkipExisting(_, _, _)
SkipExisting(rows, c, todo) ==
    IF todo = <<>> THEN <<>>
    ELSE IF \E r \in rows : r.clientId = c /\ r.messageId = Head(todo)
         THEN SkipExisting(rows, c, Tail(todo))
    ELSE todo

\* syncAllMessages returns to its caller: the operation ends, or the send
\* that ran the auto-sync goes on
SyncReturn(rec, res) ==
    IF rec.ret = "done" THEN Finish(rec, res)
    ELSE [rec EXCEPT !.pc = rec.ret, !.ret = "done", !.todo = <<>>]

SyncPc(todo) == IF todo = <<>> THEN "sync_cleanup" ELSE "sync_create"

\* syncAllMessages: clients.get, getChats and fetchMessages, then the dedup
\* lookups up to the first message that is not stored
syncFetch(s) ==
    /\ At(s, "sync_fetch")
    /\ LET c == calls[s].clientId
           todo == SkipExisting(messages, c, SetToSeq({m.messageId : m \in
                              {x \in provMsgs : x.clientId = c}})) IN
       calls' = [calls EXCEPT ![s] =
          IF clients[c] = "none" THEN SyncReturn(@, "not_connected")
          ELSE IF clients[c] # "ready" THEN SyncReturn(@, "failed")
          ELSE [@ EXCEPT !.pc = SyncPc(todo), !.todo = todo]]
    /\ UNCHANGED <<credits, creditLog, messages, sessions, clients, provMsgs,
                   opsStarted, restored, sessionDups, orphans, pairVars>>

\* syncAllMessages: message.create of a message not found (a store error is
\* caught per message and the loop goes on), then the next dedup lookups
syncCreate(s) ==
    /\ At(s, "sync_create")
    /\ LET c == calls[s].clientId
           m == ProvById(Head(calls[s].todo))
           blocked == UniqueViolation(m.messageId)
           row == NewRow(c, m.messageId, m.timestamp,
                         IF m.fromMe THEN "OUTBOUND" ELSE "INBOUND", "PENDING")
           stored == IF blocked THEN messages ELSE messages \cup {row}
           todo == SkipExisting(stored, c, Tail(calls[s].todo)) IN
       /\ messages' = stored
       /\ calls' = [calls EXCEPT ![s].pc = SyncPc(todo), ![s].todo = todo,
             ![s].dupBlocked = IF blocked THEN @ + 1 ELSE @,
             ![s].synced = IF blocked THEN @ ELSE @ + 1]
    /\ UNCHANGED <<credits, creditLog, sessions, clients, provMsgs,
                   opsStarted, restored, sessionDups, orphans, pairVars>>

\* syncAllMessages: cleanupOldMessages, then return (to the send that ran
\* the auto-sync, if any); the pass is complete and no Log row of type
\* 'message_sync' is written
syncCleanup(s) ==
    /\ At(s, "sync_cleanup")
    /\ messages' = cleanupOldMessages(messages, calls[s].clientId)
    /\ calls' = [calls EXCEPT ![s] =
          SyncReturn([@ EXCEPT !.passDone = TRUE], "success")]
    /\ UNCHANGED <<credits, creditLog, sessions, clients, provMsgs,
                   opsStarted, restored, sessionDups, orphans, pairVars>>

\* ------------------------------------------------------ sendMessage
sendMessageStart(s, c, phone) ==
    /\ CanStart(s)
    /\ Begin(s, [Idle EXCEPT !.op = "sendMessage", !.pc = "health",
                             !.clientId = c, !.phones = <<phone>>,
                             !.amount = requiredCredits, !.ret = "check"])
    /\ UNCHANGED <<credits, creditLog, messages, sessions, clients, provMsgs,
                   restored, sessionDups, orphans, pairVars>>

\* sendMessage / sendBulkMessage: handle lookup, readiness test, balance test
sendCheck(s) ==
    /\ At(s, "check")
    /\ LET c == calls[s].clientId IN
       calls' = [calls EXCEPT ![s] =
          IF clients[c] = "none" THEN Finish(@, "not_connected")
          ELSE IF clients[c] # "ready" THEN Finish(@, "not_ready")
          ELSE IF InsufficientCredits(credits[c], calls[s].amount)
               THEN Finish([@ EXCEPT !.creditsRead = credits[c]], "insufficient")
          ELSE [@ EXCEPT !.creditsRead = credits[c], !.pc = "send",
                         !.idx = 1, !.retryCount = 0, !.ret = "done"]]
    /\ UNCHANGED <<credits, creditLog, messages, sessions, clients, provMsgs,
                   opsStarted, restored, sessionDups, orphans, pairVars>>

\* a retry loop that never rethrows the error of the last attempt
RetryNeverExhausted(retryCount) == retryCount > maxRetries

\* a retry loop that gives up at the first failed attempt
ThrowAtOnce(retryCount) == retryCount >= 1

\* the retry loop after a failed attempt: throw after maxRetries attempts
RetryExhausted(retryCount) == retryCount >= maxRetries

\* the retry loop of sendMessage / sendBulkMessage run against the outcomes
\* of the successive client.sendMessage calls (TRUE = resolved); a failed
\* attempt touches no shared state.  Yields <<how, retryCount>>: "sent",
\* "thrown" (the error of the last attempt is rethrown) or "exit" (the while
\* condition ends the loop with no message sent).
RECURSIVE RetryLoop(_, _)
RetryLoop(outcomes, retryCount) ==
    IF ~(retryCount < maxRetries) THEN <<"exit", retryCount>>
    ELSE IF Head(outcomes) THEN <<"sent", retryCount>>
    ELSE IF RetryExhausted(retryCount + 1) THEN <<"thrown", retryCount + 1>>
    ELSE RetryLoop(Tail(outcomes), retryCount + 1)

\* provider outcomes tried: success at once, success on the first retry,
\* failure of every attempt
Outcomes == { [i \in 1..maxRetries |-> TRUE],
             [i \in 1..maxRetries |-> i > 1],
             [i \in 1..maxRetries |-> FALSE] }

\* every pattern of provider outcomes over the attempts of one retry loop
AllOutcomes == [1..maxRetries -> BOOLEAN]

\* a pipeline that goes on to the debit when the last attempt has thrown
DebitWhatever(how) == "debit"

\* sendMessage after the retry loop: the rethrown error of the last attempt
\* leaves the try block, otherwise the debit is next
AfterAttempts(how) == IF how = "thrown" THEN "catch" ELSE "debit"

\* the categories the catch block of sendMessage tells apart by the error
\* message: 'getChat', 'not-authorized', 'not-found', anything else
Errors == {"chat_access", "session_expired", "not_found", "generic"}

\* sendMessage: the retry loop around client.sendMessage; on success the
\* provider assigns the message id, on exhaustion the error is thrown; err
\* is the error of the attempts that fail
sendAttempts(s, outcomes, err) ==
    /\ At(s, "send")
    /\ calls[s].op = "sendMessage"
    /\ LET r == RetryLoop(outcomes, 0) IN
       IF r[1] = "sent"
       THEN /\ ProvHasRoom
            /\ provMsgs' = provMsgs \cup {ProvMsg(calls[s].clientId, TRUE)}
            /\ calls' = [calls EXCEPT ![s].sentMsg = NextProvId,
                                      ![s].retryCount = r[2],
                                      ![s].attempts = r[2] + 1,
                                      ![s].sends = @ + 1,
                                      ![s].error = IF r[2] > 0 THEN err
                                                   ELSE "none",
                                      ![s].pc = "debit"]
       ELSE /\ UNCHANGED provMsgs
            /\ calls' = [calls EXCEPT ![s].retryCount = r[2],
                                      ![s].attempts = r[2],
                                      ![s].error = IF r[2] > 0 THEN err
                                                   ELSE "none",
                                      ![s].pc = AfterAttempts(r[1])]
    /\ UNCHANGED <<credits, creditLog, messages, sessions, clients,
                   opsStarted, restored, sessionDups, orphans, pairVars>>

\* sendMessage: prisma.user.update({ credits: { decrement: 1 } })
sendDebit(s) ==
    /\ At(s, "debit")
    /\ credits' = [credits EXCEPT ![calls[s].clientId] = @ - requiredCredits]
    /\ calls' = [calls EXCEPT ![s].pc = "ledger",
                              ![s].debited = @ + requiredCredits]
    /\ UNCHANGED <<creditLog, messages, sessions, clients, provMsgs,
                   opsStarted, restored, sessionDups, orphans, pairVars>>

\* sendMessage: prisma.creditLog.create({ type: 'DECREMENT', amount: 1 })
sendLedger(s) ==
    /\ At(s, "ledger")
    /\ LET e == [type |-> "DECREMENT", amount |-> requiredCredits] IN
       /\ creditLog' = [creditLog EXCEPT ![calls[s].clientId] = Append(@, e)]
       /\ calls' = [calls EXCEPT ![s].pc = "outgoing",
                                 ![s].ledgered = Append(@, e)]
    /\ UNCHANGED <<credits, messages, sessions, clients, provMsgs,
                   opsStarted, restored, sessionDups, orphans, pairVars>>

\* sendMessage: contact.findFirst({ where: { phone_number } }) finds no row,
\* so that contact.id throws
ContactIdThrows(phone) == ~\E k \in Contacts : k.phone_number = phone

\* handleOutgoingMessage: contact.findFirst({ where: { id, clientId } })
ContactOfClient(phone, c) ==
    \E k \in Contacts : k.phone_number = phone /\ k.clientId = c

\* sendMessage: contact lookup and handleOutgoingMessage (text signature):
\* message.create of the OUTBOUND row and the message_sent event; a store
\* error is caught inside the handler
sendOutgoing(s) ==
    /\ At(s, "outgoing")
    /\ LET c == calls[s].clientId
           phone == calls[s].phones[1]
           mid == calls[s].sentMsg
           ts == IF mid = NullId THEN NewDate ELSE ProvById(mid).timestamp IN
       IF ContactIdThrows(phone)
       THEN /\ calls' = [calls EXCEPT ![s].pc = "catch"]
            /\ UNCHANGED messages
       ELSE IF ~ContactOfClient(phone, c)
       THEN /\ calls' = [calls EXCEPT ![s].pc = "cleanup"]
            /\ UNCHANGED messages
       ELSE IF UniqueViolation(mid)
       THEN /\ calls' = [calls EXCEPT ![s].pc = "cleanup",
                                      ![s].dupBlocked = @ + 1]
            /\ UNCHANGED messages
       ELSE /\ messages' = messages \cup
                 {NewRow(c, mid, ts, "OUTBOUND", DefaultStatus)}
            /\ calls' = [calls EXCEPT ![s].pc = "cleanup", ![s].rows = @ + 1,
                                      ![s].events = @ + 1]
    /\ UNCHANGED <<credits, creditLog, sessions, clients, provMsgs,
                   opsStarted, restored, sessionDups, orphans, pairVars>>

\* sendMessage: cleanupOldMessages, then the SEND_MESSAGE log row
\* (sentMsg.id throws when no message was sent; logOk = log.create resolved)
sendCleanup(s, logOk) ==
    /\ At(s, "cleanup")
    /\ messages' = cleanupOldMessages(messages, calls[s].clientId)
    /\ calls' = [calls EXCEPT
          ![s].pc = IF calls[s].sentMsg = NullId \/ ~logOk THEN "catch"
                    ELSE "pending_find",
          ![s].logFailed = calls[s].sentMsg # NullId /\ ~logOk]
    /\ UNCHANGED <<credits, creditLog, sessions, clients, provMsgs,
                   opsStarted, restored, sessionDups, orphans, pairVars>>

\* sendMessage: message.findFirst({ where: { messageId } })
sendPendingFind(s) ==
    /\ At(s, "pending_find")
    /\ calls' = [calls EXCEPT ![s].pc =
          IF \E r \in messages : r.messageId = calls[s].sentMsg
          THEN "status" ELSE "pending_create"]
    /\ UNCHANGED <<credits, creditLog, messages, sessions, clients, provMsgs,
                   opsStarted, restored, sessionDups, orphans, pairVars>>

\* sendMessage: message.create of the PENDING row, timestamp new Date()
sendPendingCreate(s) ==
    /\ At(s, "pending_create")
    /\ IF UniqueViolation(calls[s].sentMsg)
       THEN /\ calls' = [calls EXCEPT ![s].pc = "catch",
                                      ![s].dupBlocked = @ + 1]
            /\ UNCHANGED messages
       ELSE /\ messages' = messages \cup
                 {NewRow(calls[s].clientId, calls[s].sentMsg, NewDate,
                         "OUTBOUND", "PENDING")}
            /\ calls' = [calls EXCEPT ![s].pc = "status", ![s].rows = @ + 1]
    /\ UNCHANGED <<credits, creditLog, sessions, clients, provMsgs,
                   opsStarted, restored, sessionDups, orphans, pairVars>>

\* sendMessage: updateMessageStatus(SENT) and the success result
sendStatus(s) ==
    /\ At(s, "status")
    /\ messages' = updateMessageStatus(messages, calls[s].sentMsg, "SENT")
    /\ calls' = [calls EXCEPT ![s] = Finish(@, "success")]
    /\ UNCHANGED <<credits, creditLog, sessions, clients, provMsgs,
                   opsStarted, restored, sessionDups, orphans, pairVars>>

\* sendMessage: the catch block: updateMessageStatus(FAILED) when a message
\* was sent, the error log row, the failure result
sendCatch(s) ==
    /\ At(s, "catch")
    /\ messages' = IF calls[s].sentMsg # NullId
                   THEN updateMessageStatus(messages, calls[s].sentMsg, "FAILED")
                   ELSE messages
    /\ calls' = [calls EXCEPT ![s] = Finish(@, "failed")]
    /\ UNCHANGED <<credits, creditLog, sessions, clients, provMsgs,
                   opsStarted, restored, sessionDups, orphans, pairVars>>

\* ------------------------------------------------------ sendBulkMessage
sendBulkMessageStart(s, c, n) ==
    /\ CanStart(s)
    /\ Begin(s, [Idle EXCEPT !.op = "sendBulkMessage", !.pc = "health",
                             !.clientId = c, !.phones = BulkAddrs(n),
                             !.amount = n, !.ret = "check"])
    /\ UNCHANGED <<credits, creditLog, messages, sessions, clients, provMsgs,
                   restored, sessionDups, orphans, pairVars>>

\* a recipient loop that a failed recipient ends
AbortAfterFailure(idx, len) == len + 1

\* the recipient loop: index of the next recipient after one that failed
NextAfterFailure(idx, len) == idx + 1

BulkPc(idx, len) == IF idx > len THEN "bulk_cleanup" ELSE "send"

\* sendBulkMessage: the retry loop around client.sendMessage for the
\* recipient at idx; on exhaustion (or when sentMsg.id throws because no
\* message was sent) the recipient gets a failed result and the loop goes on
bulkAttempts(s, outcomes) ==
    /\ At(s, "send")
    /\ calls[s].op = "sendBulkMessage"
    /\ LET r == RetryLoop(outcomes, 0)
           len == Len(calls[s].phones)
           nxt == NextAfterFailure(calls[s].idx, len) IN
       IF r[1] = "sent"
       THEN /\ ProvHasRoom
            /\ provMsgs' = provMsgs \cup {ProvMsg(calls[s].clientId, TRUE)}
            /\ calls' = [calls EXCEPT ![s].sentMsg = NextProvId,
                                      ![s].retryCount = r[2],
                                      ![s].attempts = @ + r[2] + 1,
                                      ![s].sends = @ + 1,
                                      ![s].pc = "bulk_create"]
       ELSE /\ UNCHANGED provMsgs
            /\ calls' = [calls EXCEPT ![s].retryCount = 0,
                                      ![s].attempts = @ + r[2],
                                      ![s].results = Append(@, FALSE),
                                      ![s].idx = nxt,
                                      ![s].pc = BulkPc(nxt, len)]
    /\ UNCHANGED <<credits, creditLog, messages, sessions, clients,
                   opsStarted, restored, sessionDups, orphans, pairVars>>

\* sendBulkMessage: message.create of the OUTBOUND row, the log row and the
\* result entry; a store error makes the recipient a failed result
bulkCreate(s) ==
    /\ At(s, "bulk_create")
    /\ LET c == calls[s].clientId
           mid == calls[s].sentMsg
           len == Len(calls[s].phones)
           nxt == NextAfterFailure(calls[s].idx, len) IN
       IF UniqueViolation(mid)
       THEN /\ calls' = [calls EXCEPT ![s] =
                 [@ EXCEPT !.results = Append(@, FALSE), !.retryCount = 0,
                    !.dupBlocked = @ + 1, !.idx = nxt,
                    !.pc = BulkPc(nxt, len)]]
            /\ UNCHANGED messages
       ELSE /\ messages' = messages \cup
                 {NewRow(c, mid, ProvById(mid).timestamp, "OUTBOUND",
                         DefaultStatus)}
            /\ calls' = [calls EXCEPT ![s] =
                 [@ EXCEPT !.results = Append(@, TRUE), !.retryCount = 0,
                    !.rows = @ + 1, !.successfulMessages = @ + 1,
                    !.idx = calls[s].idx + 1,
                    !.pc = BulkPc(calls[s].idx + 1, len)]]
    /\ UNCHANGED <<credits, creditLog, sessions, clients, provMsgs,
                   opsStarted, restored, sessionDups, orphans, pairVars>>

\* sendBulkMessage: cleanupOldMessages after the loop
bulkCleanup(s) ==
    /\ At(s, "bulk_cleanup")
    /\ messages' = cleanupOldMessages(messages, calls[s].clientId)
    /\ calls' = [calls EXCEPT ![s] =
          IF calls[s].successfulMessages > 0 THEN [@ EXCEPT !.pc = "bulk_debit"]
          ELSE Finish(@, "success")]
    /\ UNCHANGED <<credits, creditLog, sessions, clients, provMsgs,
                   opsStarted, restored, sessionDups, orphans, pairVars>>

\* sendBulkMessage: user.update({ credits: { decrement: successfulMessages } })
bulkDebit(s) ==
    /\ At(s, "bulk_debit")
    /\ credits' = [credits EXCEPT ![calls[s].clientId] =
                      @ - calls[s].successfulMessages]
    /\ calls' = [calls EXCEPT ![s].pc = "bulk_ledger",
                              ![s].debited = @ + calls[s].successfulMessages]
    /\ UNCHANGED <<creditLog, messages, sessions, clients, provMsgs,
                   opsStarted, restored, sessionDups, orphans, pairVars>>

\* sendBulkMessage: the single DECREMENT creditLog row and the result
bulkLedger(s) ==
    /\ At(s, "bulk_ledger")
    /\ LET e == [type |-> "DECREMENT",
                 amount |-> calls[s].successfulMessages] IN
       /\ creditLog' = [creditLog EXCEPT ![calls[s].clientId] = Append(@, e)]
       /\ calls' = [calls EXCEPT ![s] =
             Finish([@ EXCEPT !.ledgered = Append(@, e)], "success")]
    /\ UNCHANGED <<credits, messages, sessions, clients, provMsgs,
                   opsStarted, restored, sessionDups, orphans, pairVars>>

\* ------------------------------------------------------ inbound events
\* the provider account receives a message while the tenant's handle is
\* not ready: no event, the message waits in the provider's history
providerReceive(c) ==
    /\ NoneDone
    /\ ProvHasRoom
    /\ clients[c] # "ready"
    /\ provMsgs' = provMsgs \cup {ProvMsg(c, FALSE)}
    /\ UNCHANGED <<credits, creditLog, messages, sessions, clients, calls,
                   opsStarted, restored, sessionDups, orphans, pairVars>>

\* message texts and provider message types of inbound events
Bodies == {"", "text"}
Types == {"chat", "e2e_notification"}

\* an inbound handler that skips only messages without a body
SkipEmptyBody(body, type) == body = ""

\* handleIncomingMessage: !message.body || message.type === 'e2e_notification'
SkipMessage(body, type) == body = "" \/ type = "e2e_notification"

\* client.on('message') for a message that arrives on a ready handle, and
\* the skip rule of handleIncomingMessage; the provider's history holds the
\* message unless it is a notification
handleIncomingMessageStart(s, c, body, type) ==
    /\ CanStart(s)
    /\ ProvHasRoom
    /\ clients[c] = "ready"
    /\ provMsgs' = IF type = "e2e_notification" THEN provMsgs
                   ELSE provMsgs \cup {ProvMsg(c, FALSE)}
    /\ LET rec == [Idle EXCEPT !.op = "handleIncomingMessage",
                               !.pc = "in_find", !.clientId = c,
                               !.body = body, !.type = type,
                               !.todo = <<NextProvId>>] IN
       Begin(s, IF SkipMessage(body, type) THEN Finish(rec, "skipped")
                ELSE rec)
    /\ UNCHANGED <<credits, creditLog, messages, sessions, clients, restored,
                   sessionDups, orphans, pairVars>>

\* client.on('message') fired again for a message already in the history
handleIncomingMessageAgain(s, mid) ==
    /\ CanStart(s)
    /\ \E m \in provMsgs : /\ m.messageId = mid
                           /\ ~m.fromMe
                           /\ clients[m.clientId] = "ready"
                           /\ Begin(s, [Idle EXCEPT
                                  !.op = "handleIncomingMessage",
                                  !.pc = "in_find", !.clientId = m.clientId,
                                  !.body = "text", !.type = "chat",
                                  !.todo = <<mid>>])
    /\ UNCHANGED <<credits, creditLog, messages, sessions, clients, provMsgs,
                   restored, sessionDups, orphans, pairVars>>

\* handleIncomingMessage: the dedup lookup
incomingFind(s) ==
    /\ At(s, "in_find")
    /\ calls' = [calls EXCEPT ![s] =
          IF ExistsMessage(calls[s].clientId, Head(calls[s].todo))
          THEN Finish(@, "skipped") ELSE [@ EXCEPT !.pc = "in_create"]]
    /\ UNCHANGED <<credits, creditLog, messages, sessions, clients, provMsgs,
                   opsStarted, restored, sessionDups, orphans, pairVars>>

\* handleIncomingMessage: message.create of the INBOUND row and the audit
\* log of processMessageByType; a store error goes to the outer catch
incomingCreate(s) ==
    /\ At(s, "in_create")
    /\ LET c == calls[s].clientId
           m == ProvById(Head(calls[s].todo)) IN
       IF UniqueViolation(m.messageId)
       THEN /\ calls' = [calls EXCEPT ![s] =
                 Finish([@ EXCEPT !.dupBlocked = @ + 1], "failed")]
            /\ UNCHANGED messages
       ELSE /\ messages' = messages \cup
                 {NewRow(c, m.messageId, m.timestamp, "INBOUND",
                         DefaultStatus)}
            /\ calls' = [calls EXCEPT ![s].pc = "in_reply", ![s].rows = @ + 1]
    /\ UNCHANGED <<credits, creditLog, sessions, clients, provMsgs,
                   opsStarted, restored, sessionDups, orphans, pairVars>>

\* handleIncomingMessage: the auto-reply through the tenant's handle (its
\* failure is caught), the auto_reply and message_received events; replyTo
\* records the message the provider message answers
incomingReply(s, sent) ==
    /\ At(s, "in_reply")
    /\ LET c == calls[s].clientId IN
       IF sent
       THEN /\ clients[c] = "ready" /\ ReplyHasRoom
            /\ provMsgs' = provMsgs \cup
                  {[ProvMsg(c, TRUE) EXCEPT !.replyTo = Head(calls[s].todo)]}
            /\ calls' = [calls EXCEPT ![s] =
                  Finish([@ EXCEPT !.sends = @ + 1, !.events = @ + 2], "success")]
       ELSE /\ calls' = [calls EXCEPT ![s] =
                  Finish([@ EXCEPT !.events = @ + 2], "success")]
            /\ UNCHANGED provMsgs
    /\ UNCHANGED <<credits, creditLog, messages, sessions, clients,
                   opsStarted, restored, sessionDups, orphans, pairVars>>

\* client.on('message_ack'): updateMessageStatus with the mapped status
messageAck(mid, ack) ==
    /\ NoneDone
    /\ opsStarted < MaxOps
    /\ \E m \in provMsgs : m.messageId = mid /\ m.fromMe
                           /\ clients[m.clientId] = "ready"
    /\ messages' = messageAckPass(messages, mid, ack)
    /\ opsStarted' = opsStarted + 1
    /\ UNCHANGED <<credits, creditLog, sessions, clients, provMsgs, calls,
                   restored, sessionDups, orphans, pairVars>>

\* ------------------------------------------------------ specification
Next ==
    \/ \E s \in Slots : Return(s)
    \/ \E s \in Slots, c \in Clients, amt \in 1..MaxAmount :
          incrementCreditsStart(s, c, amt)
    \/ \E s \in Slots : incrementCreditsUpdate(s)
    \/ \E s \in Slots : incrementCreditsLog(s)
    \/ \E s \in Slots, c \in Clients, amt \in 1..MaxAmount :
          decrementCreditsStart(s, c, amt)
    \/ \E s \in Slots : decrementCreditsRead(s)
    \/ \E s \in Slots : decrementCreditsUpdate(s)
    \/ \E s \in Slots : decrementCreditsLog(s)
    \/ \E oks \in [Clients -> BOOLEAN] : restoreActiveSessions(oks)
    \/ \E s \in Slots, c \in Clients : providerReady(s, c)
    \/ \E s \in Slots, ok \in BOOLEAN : checkAndReconnectClient(s, ok)
    \/ \E s \in Slots, c \in Clients : syncAllMessagesStart(s, c)
    \/ \E s \in Slots : syncFetch(s)
    \/ \E s \in Slots : syncCreate(s)
    \/ \E s \in Slots : syncCleanup(s)
    \/ \E s \in Slots, c \in Clients, phone \in Phones :
          sendMessageStart(s, c, phone)
    \/ \E s \in Slots : sendCheck(s)
    \/ \E s \in Slots, outcomes \in Outcomes :
          sendAttempts(s, outcomes, "generic")
    \/ \E s \in Slots : sendDebit(s)
    \/ \E s \in Slots : sendLedger(s)
    \/ \E s \in Slots : sendOutgoing(s)
    \/ \E s \in Slots : sendCleanup(s, TRUE)
    \/ \E s \in Slots : sendPendingFind(s)
    \/ \E s \in Slots : sendPendingCreate(s)
    \/ \E s \in Slots : sendStatus(s)
    \/ \E s \in Slots : sendCatch(s)
    \/ \E s \in Slots, c \in Clients, n \in 1..MaxBulk :
          sendBulkMessageStart(s, c, n)
    \/ \E s \in Slots, outcomes \in Outcomes : bulkAttempts(s, outcomes)
    \/ \E s \in Slots : bulkCreate(s)
    \/ \E s \in Slots : bulkCleanup(s)
    \/ \E s \in Slots : bulkDebit(s)
    \/ \E s \in Slots : bulkLedger(s)
    \/ \E c \in Clients : providerReceive(c)
    \/ \E s \in Slots, c \in Clients :
          handleIncomingMessageStart(s, c, "text", "chat")
    \/ \E s \in Slots, mid \in 1..MaxProv : handleIncomingMessageAgain(s, mid)
    \/ \E s \in Slots : incomingFind(s)
    \/ \E s \in Slots : incomingCreate(s)
    \/ \E s \in Slots, sent \in BOOLEAN : incomingReply(s, sent)
    \/ \E mid \in 1..MaxProv, ack \in -1..3 : messageAck(mid, ack)

Spec == Init /\ [][Next]_vars

\* ------------------------------------------------------ credit requests
\* the credit endpoints hand the body's amount to the service as it comes:
\* any integer, positive or not
CreditNext ==
    \/ \E s \in Slots : Return(s)
    \/ \E s \in Slots, c \in Clients, amt \in (0 - MaxAmount)..MaxAmount :
          incrementCreditsStart(s, c, amt)
    \/ \E s \in Slots : incrementCreditsUpdate(s)
    \/ \E s \in Slots : incrementCreditsLog(s)
    \/ \E s \in Slots, c \in Clients, amt \in 1..MaxAmount :
          decrementCreditsStart(s, c, amt)
    \/ \E s \in Slots : decrementCreditsRead(s)
    \/ \E s \in Slots : decrementCreditsUpdate(s)
    \/ \E s \in Slots : decrementCreditsLog(s)

CreditSpec == Init /\ [][CreditNext]_vars

\* ------------------------------------------------------ store failures
\* awaits of sendMessage that start with a store call outside a local
\* try/catch (cleanupOldMessages and handleOutgoingMessage catch their own)
SendStoreAwaits == {"check", "debit", "ledger", "outgoing", "pending_find",
                    "pending_create", "status", "catch"}

\* awaits of sendBulkMessage with a store call outside the per-recipient try
BulkStoreAwaits == {"check", "bulk_debit", "bulk_ledger"}

\* where a store exception raised at an await goes: sendMessage wraps its
\* body in try/catch, and the catch block writes to the store itself;
\* sendBulkMessage has no try/catch around its store calls
ThrownTo(op, pc) ==
    IF op = "sendMessage" /\ pc # "catch" THEN "catch" ELSE "unhandled"

\* a store call of a send pipeline rejects (the store is unreachable, a
\* constraint fails): the exception goes to the enclosing catch block or
\* out of the operation
storeThrows(s) ==
    /\ NoneDone
    /\ \/ calls[s].op = "sendMessage" /\ calls[s].pc \in SendStoreAwaits
       \/ calls[s].op = "sendBulkMessage" /\ calls[s].pc \in BulkStoreAwaits
    /\ calls[s].pc = "check" => clients[calls[s].clientId] = "ready"
    /\ LET to == ThrownTo(calls[s].op, calls[s].pc) IN
       calls' = [calls EXCEPT ![s] =
          IF to = "catch" THEN [@ EXCEPT !.pc = "catch"]
          ELSE Finish(@, "unhandled")]
    /\ UNCHANGED <<credits, creditLog, messages, sessions, clients, provMsgs,
                   opsStarted, restored, sessionDups, orphans, pairVars>>

\* start of SendSpec: the tenant is connected, its handle is ready
SendInit ==
    /\ credits = [c \in Clients |-> MaxCredits]
    /\ creditLog = [c \in Clients |->
          <<[type |-> "INCREMENT", amount |-> MaxCredits]>>]
    /\ messages = {OldRow(c, i) : c \in Clients, i \in 1..PreRows}
    /\ sessions = [c \in Clients |-> "active"]
    /\ clients = [c \in Clients |-> "ready"]
    /\ provMsgs = {}
    /\ calls = [s \in Slots |-> Idle]
    /\ opsStarted = 0
    /\ restored = [ran |-> TRUE, resync |-> {}]
    /\ QuietInit

SendNext ==
    \/ \E s \in Slots : Return(s)
    \/ \E s \in Slots, ok \in BOOLEAN : checkAndReconnectClient(s, ok)
    \/ \E s \in Slots : syncFetch(s)
    \/ \E s \in Slots : syncCreate(s)
    \/ \E s \in Slots : syncCleanup(s)
    \/ \E s \in Slots, c \in Clients, phone \in Phones :
          sendMessageStart(s, c, phone)
    \/ \E s \in Slots : sendCheck(s)
    \/ \E s \in Slots, outcomes \in Outcomes, err \in Errors :
          sendAttempts(s, outcomes, err)
    \/ \E s \in Slots : sendDebit(s)
    \/ \E s \in Slots : sendLedger(s)
    \/ \E s \in Slots : sendOutgoing(s)
    \/ \E s \in Slots, logOk \in BOOLEAN : sendCleanup(s, logOk)
    \/ \E s \in Slots : sendPendingFind(s)
    \/ \E s \in Slots : sendPendingCreate(s)
    \/ \E s \in Slots : sendStatus(s)
    \/ \E s \in Slots : sendCatch(s)
    \/ \E s \in Slots, c \in Clients, n \in 1..MaxBulk :
          sendBulkMessageStart(s, c, n)
    \/ \E s \in Slots, outcomes \in AllOutcomes : bulkAttempts(s, outcomes)
    \/ \E s \in Slots : bulkCreate(s)
    \/ \E s \in Slots : bulkCleanup(s)
    \/ \E s \in Slots : bulkDebit(s)
    \/ \E s \in Slots : bulkLedger(s)
    \/ \E s \in Slots : storeThrows(s)

SendSpec == SendInit /\ [][SendNext]_vars

\* ------------------------------------------------------ acknowledgments
\* client.on('message_ack') for a message the tenant has sent: the handler
\* maps the code and calls updateMessageStatus
messageAckStart(s, mid, ack) ==
    /\ CanStart(s)
    /\ \E m \in provMsgs :
          /\ m.messageId = mid /\ m.fromMe
          /\ clients[m.clientId] = "ready"
          /\ Begin(s, [Idle EXCEPT !.op = "message_ack", !.pc = "ack_find",
                                   !.clientId = m.clientId, !.sentMsg = mid,
                                   !.ack = ack])
    /\ UNCHANGED <<credits, creditLog, messages, sessions, clients, provMsgs,
                   restored, sessionDups, orphans, pairVars>>

\* updateMessageStatus: message.findUnique({ messageId }) for previousStatus
messageAckFind(s) ==
    /\ At(s, "ack_find")
    /\ LET hit == {r \in messages : r.messageId = calls[s].sentMsg} IN
       calls' = [calls EXCEPT ![s].pc = "ack_update",
                              ![s].statusRead =
                                 IF hit = {} THEN "none"
                                 ELSE (CHOOSE r \in hit : TRUE).status]
    /\ UNCHANGED <<credits, creditLog, messages, sessions, clients, provMsgs,
                   opsStarted, restored, sessionDups, orphans, pairVars>>

\* updateMessageStatus: message.updateMany({ messageId }, { status })
messageAckUpdate(s) ==
    /\ At(s, "ack_update")
    /\ messages' = messageAckPass(messages, calls[s].sentMsg, calls[s].ack)
    /\ calls' = [calls EXCEPT ![s] = Finish(@, "success")]
    /\ UNCHANGED <<credits, creditLog, sessions, clients, provMsgs,
                   opsStarted, restored, sessionDups, orphans, pairVars>>

\* the codes the provider acknowledges with
AckCodes == -1..3

\* start of AckSpec: a sendMessage of the tenant has completed: one
\* message sent, debited and stored with status SENT
AckInit ==
    /\ credits = [c \in Clients |-> MaxCredits - requiredCredits]
    /\ creditLog = [c \in Clients |->
          <<[type |-> "INCREMENT", amount |-> MaxCredits],
            [type |-> "DECREMENT", amount |-> requiredCredits]>>]
    /\ provMsgs = {[messageId |-> 1, clientId |-> c, timestamp |-> StartTime,
                    fromMe |-> TRUE, replyTo |-> NullId] : c \in Clients}
    /\ messages = {OldRow(c, i) : c \in Clients, i \in 1..PreRows}
                  \cup {[messageId |-> 1, copy |-> 0, clientId |-> c,
                          timestamp |-> StartTime, direction |-> "OUTBOUND",
                          status |-> "SENT"] : c \in Clients}
    /\ sessions = [c \in Clients |-> "active"]
    /\ clients = [c \in Clients |-> "ready"]
    /\ calls = [s \in Slots |-> Idle]
    /\ opsStarted = 0
    /\ restored = [ran |-> TRUE, resync |-> {}]
    /\ QuietInit

AckNext ==
    \/ \E s \in Slots : Return(s)
    \/ \E s \in Slots, mid \in 1..MaxProv, ack \in AckCodes :
          messageAckStart(s, mid, ack)
    \/ \E s \in Slots : messageAckFind(s)
    \/ \E s \in Slots : messageAckUpdate(s)

AckSpec == AckInit /\ [][AckNext]_vars

\* ------------------------------------------------------ fan-out channel
\* a connected socket is in the room named by its own id (socket.io)
Connected(k) == k \in rooms[k]

\* the payload types the services publish
EventTypes == {"message_received", "message_sent", "whatsapp_status",
               "auto_reply"}

\* handleConnection: the socket joins the room named by the clientId of
\* its handshake query; t = "" is a handshake without clientId
handleConnection(k, t) ==
    /\ ~Connected(k)
    /\ rooms' = [rooms EXCEPT ![k] = IF t = "" THEN {k} ELSE {k, t}]
    /\ UNCHANGED <<credits, creditLog, messages, sessions, clients, provMsgs,
                   calls, opsStarted, restored, sessionDups, orphans,
                   received, inbound>>

\* handleDisconnect: the socket has left its rooms
handleDisconnect(k) ==
    /\ Connected(k)
    /\ rooms' = [rooms EXCEPT ![k] = {}]
    /\ UNCHANGED <<credits, creditLog, messages, sessions, clients, provMsgs,
                   calls, opsStarted, restored, sessionDups, orphans,
                   received, inbound>>

\* @SubscribeMessage('joinWhatsAppRoom'): client.join(data.clientId)
handleJoinRoom(k, t) ==
    /\ Connected(k)
    /\ rooms' = [rooms EXCEPT ![k] = @ \cup {t}]
    /\ UNCHANGED <<credits, creditLog, messages, sessions, clients, provMsgs,
                   calls, opsStarted, restored, sessionDups, orphans,
                   received, inbound>>

\* sendMessageToClient: server.to(clientId).emit('new_message', message),
\* then server.emit('whatsapp_message', { clientId, message }) to every
\* connected socket.  Yields what each socket has been sent.
sendMessageToClient(got, t, type) ==
    [k \in Sockets |->
        got[k]
        \cup (IF t \in rooms[k]
              THEN {[name |-> "new_message", clientId |-> t, type |-> type]}
              ELSE {})
        \cup (IF Connected(k)
              THEN {[name |-> "whatsapp_message", clientId |-> t,
                     type |-> type]}
              ELSE {})]

\* a service publishes an event of a tenant: emitStatusUpdate,
\* handleOutgoingMessage, handleIncomingMessage
publish(t, type) ==
    /\ opsStarted < MaxOps
    /\ opsStarted' = opsStarted + 1
    /\ received' = sendMessageToClient(received, t, type)
    /\ UNCHANGED <<credits, creditLog, messages, sessions, clients, provMsgs,
                   calls, restored, sessionDups, orphans, rooms, inbound>>

\* ------------------------------------------------------ tenants as peers
\* the two tenants are each other's counterpart
Peer(t) == IF t = "A" THEN "B" ELSE "A"

\* the provider delivers a message of a third party to a tenant's account
providerDelivers(t) ==
    /\ inbound = {}
    /\ opsStarted < MaxOps
    /\ opsStarted' = opsStarted + 1
    /\ inbound' = {t}
    /\ UNCHANGED <<credits, creditLog, messages, sessions, clients, provMsgs,
                   calls, restored, sessionDups, orphans, rooms, received>>

\* client.on('message') and handleIncomingMessage of tenant t for a message
\* of its counterpart's address: the message has a body and a new id, so it
\* is stored; it is not fromMe, so the auto-reply is sent to message.from
\* (sent = client.sendMessage resolved), which the provider delivers to the
\* counterpart's account; then the auto_reply and message_received events
autoReplyToPeer(t, sent) ==
    /\ t \in inbound
    /\ inbound' = IF sent THEN (inbound \ {t}) \cup {Peer(t)}
                  ELSE inbound \ {t}
    /\ received' = sendMessageToClient(
                      sendMessageToClient(received, t, "auto_reply"),
                      t, "message_received")
    /\ UNCHANGED <<credits, creditLog, messages, sessions, clients, provMsgs,
                   calls, opsStarted, restored, sessionDups, orphans, rooms>>

\* start of PairSpec: both tenants are connected, no front-end is
PairInit ==
    /\ credits = [c \in Clients |-> MaxCredits]
    /\ creditLog = [c \in Clients |->
          <<[type |-> "INCREMENT", amount |-> MaxCredits]>>]
    /\ messages = {OldRow(c, i) : c \in Clients, i \in 1..PreRows}
    /\ sessions = [c \in Clients |-> "active"]
    /\ clients = [c \in Clients |-> "ready"]
    /\ provMsgs = {}
    /\ calls = [s \in Slots |-> Idle]
    /\ opsStarted = 0
    /\ restored = [ran |-> TRUE, resync |-> {}]
    /\ QuietInit

PairNext ==
    \/ \E k \in Sockets, t \in Tenants \cup {""} : handleConnection(k, t)
    \/ \E k \in Sockets : handleDisconnect(k)
    \/ \E k \in Sockets, t \in Tenants : handleJoinRoom(k, t)
    \/ \E t \in Tenants, type \in EventTypes : publish(t, type)
    \/ \E t \in Tenants : providerDelivers(t)
    \/ \E t \in Tenants, sent \in BOOLEAN : autoReplyToPeer(t, sent)

PairSpec == PairInit /\ [][PairNext]_vars

\* the handler of a delivered message runs
PairFairSpec ==
    PairSpec /\ WF_vars(\E t \in Tenants : autoReplyToPeer(t, TRUE)
                                           \/ autoReplyToPeer(t, FALSE))

\* ------------------------------------------------------ session lifecycle
\* provider 'qr' event of a handle that is not authenticated:
\* updateSession(pending, { qr, qrCode })
providerQr(c) ==
    /\ NoneDone
    /\ clients[c] = "init"
    /\ sessions' = [sessions EXCEPT ![c] = "pending"]
    /\ UNCHANGED <<credits, creditLog, messages, clients, provMsgs, calls,
                   opsStarted, restored, sessionDups, orphans, pairVars>>

\* provider 'auth_failure' event: updateSession(failed); the handle stays in
\* the registry
providerAuthFailure(c) ==
    /\ NoneDone
    /\ clients[c] = "init"
    /\ sessions' = [sessions EXCEPT ![c] = "failed"]
    /\ UNCHANGED <<credits, creditLog, messages, clients, provMsgs, calls,
                   opsStarted, restored, sessionDups, orphans, pairVars>>

\* provider 'disconnected' event: updateSession(disconnected); the handle
\* stays in the registry
providerDisconnected(c) ==
    /\ NoneDone
    /\ clients[c] = "ready"
    /\ sessions' = [sessions EXCEPT ![c] = "disconnected"]
    /\ clients' = [clients EXCEPT ![c] = "closed"]
    /\ UNCHANGED <<credits, creditLog, messages, provMsgs, calls,
                   opsStarted, restored, sessionDups, orphans, pairVars>>

\* the delayed resync of restoreActiveSessions: syncAllMessages for a
\* session that was found active
restoreResync(s, c) ==
    /\ NoneDone
    /\ restored.ran
    /\ c \in restored.resync
    /\ Free(s) /\ \A t \in Slots : t < s => ~Free(t)
    /\ restored' = [restored EXCEPT !.resync = @ \ {c}]
    /\ calls' = [calls EXCEPT ![s] =
          [Idle EXCEPT !.op = "restoreResync", !.pc = "sync_fetch",
                       !.clientId = c]]
    /\ UNCHANGED <<credits, creditLog, messages, sessions, clients, provMsgs,
                   opsStarted, sessionDups, orphans, pairVars>>

\* checkAndReconnectClient called on its own; handleRead and statusRead
\* record the handle and the session status the call found
healthCheck(s, c, ok) ==
    /\ CanStart(s)
    /\ LET r == reconnectClient(c, ok) IN
       /\ clients' = r[1]
       /\ sessions' = r[2]
       /\ orphans' = orphans \cup DroppedBy(c)
    /\ Begin(s, Finish([Idle EXCEPT !.op = "checkAndReconnectClient",
                                    !.clientId = c,
                                    !.handleRead = clients[c],
                                    !.statusRead = sessions[c],
                                    !.initFailed =
                                       clients[c] \in {"none", "init"} /\ ~ok,
                                    !.initLog = reconnectClient(c, ok)[3]],
                       CASE clients[c] = "none" -> "initialized"
                         [] clients[c] = "init" -> "reconnected"
                         [] OTHER -> "healthy"))
    /\ UNCHANGED <<credits, creditLog, messages, provMsgs, restored,
                   sessionDups, pairVars>>

\* 'qr' event of a connection that is no longer in the registry: its
\* handler is still wired and calls updateSession(pending)
orphanQr(c) ==
    /\ NoneDone
    /\ c \in orphans
    /\ sessions' = [sessions EXCEPT ![c] = "pending"]
    /\ UNCHANGED <<credits, creditLog, messages, clients, provMsgs, calls,
                   opsStarted, restored, sessionDups, orphans, pairVars>>

connectWhatsAppStart(s, c) ==
    /\ CanStart(s)
    /\ Begin(s, [Idle EXCEPT !.op = "connectWhatsApp", !.pc = "conn_check",
                             !.clientId = c])
    /\ UNCHANGED <<credits, creditLog, messages, sessions, clients, provMsgs,
                   restored, sessionDups, orphans, pairVars>>

\* a connect that never finds an active session
NeverConnected(status) == FALSE

\* connectWhatsApp: getActiveSession finds a row with status 'active'
AlreadyConnected(status) == status = "active"

\* connectWhatsApp: getActiveSession and the rejection
connectCheck(s) ==
    /\ At(s, "conn_check")
    /\ LET st == sessions[calls[s].clientId] IN
       calls' = [calls EXCEPT ![s] =
          IF AlreadyConnected(st)
          THEN Finish([@ EXCEPT !.statusRead = st], "already_connected")
          ELSE [@ EXCEPT !.statusRead = st, !.pc = "conn_init"]]
    /\ UNCHANGED <<credits, creditLog, messages, sessions, clients, provMsgs,
                   opsStarted, restored, sessionDups, orphans, pairVars>>

\* connectWhatsApp: initializeClient
connectInit(s, ok) ==
    /\ At(s, "conn_init")
    /\ LET r == initializeClient(calls[s].clientId, ok) IN
       /\ clients' = r[1]
       /\ sessions' = r[2]
    /\ calls' = [calls EXCEPT
          ![s].pc = "conn_poll",
          ![s].initFailed = clients[calls[s].clientId] = "none" /\ ~ok,
          ![s].initLog = initializeClient(calls[s].clientId, ok)[3]]
    /\ UNCHANGED <<credits, creditLog, messages, provMsgs, opsStarted,
                   restored, sessionDups, orphans, pairVars>>

\* connectWhatsApp: the poll for a pending session with a QR code ends with
\* the QR code, or with the timeout after 30 polls without one
connectPoll(s) ==
    /\ At(s, "conn_poll")
    /\ calls' = [calls EXCEPT ![s] =
          Finish(@, IF sessions[calls[s].clientId] = "pending"
                    THEN "success" ELSE "timeout")]
    /\ UNCHANGED <<credits, creditLog, messages, sessions, clients, provMsgs,
                   opsStarted, restored, sessionDups, orphans, pairVars>>

disconnectWhatsAppStart(s, c) ==
    /\ CanStart(s)
    /\ Begin(s, [Idle EXCEPT !.op = "disconnectWhatsApp",
                             !.pc = "disc_handle", !.clientId = c])
    /\ UNCHANGED <<credits, creditLog, messages, sessions, clients, provMsgs,
                   restored, sessionDups, orphans, pairVars>>

\* disconnectWhatsApp: clients.get, client.logout(), client.destroy(),
\* clients.delete; ok = logout and destroy resolved
disconnectHandle(s, ok) ==
    /\ At(s, "disc_handle")
    /\ LET c == calls[s].clientId IN
       IF clients[c] = "none"
       THEN /\ calls' = [calls EXCEPT ![s].pc = "disc_sessions"]
            /\ UNCHANGED clients
       ELSE IF ok
       THEN /\ clients' = [clients EXCEPT ![c] = "none"]
            /\ calls' = [calls EXCEPT ![s].pc = "disc_sessions"]
       ELSE /\ calls' = [calls EXCEPT ![s] = Finish(@, "failed")]
            /\ UNCHANGED clients
    /\ UNCHANGED <<credits, creditLog, messages, sessions, provMsgs,
                   opsStarted, restored, sessionDups, orphans, pairVars>>

\* disconnectWhatsApp: whatsAppSession.deleteMany({ clientId })
disconnectSessions(s) ==
    /\ At(s, "disc_sessions")
    /\ sessions' = [sessions EXCEPT ![calls[s].clientId] = "absent"]
    /\ sessionDups' = [sessionDups EXCEPT ![calls[s].clientId] = 0]
    /\ calls' = [calls EXCEPT ![s].pc = "disc_messages"]
    /\ UNCHANGED <<credits, creditLog, messages, clients, provMsgs,
                   opsStarted, restored, orphans, pairVars>>

\* disconnectWhatsApp: message.deleteMany({ clientId }) and the result
disconnectMessages(s) ==
    /\ At(s, "disc_messages")
    /\ messages' = {r \in messages : r.clientId # calls[s].clientId}
    /\ calls' = [calls EXCEPT ![s] = Finish(@, "success")]
    /\ UNCHANGED <<credits, creditLog, sessions, clients, provMsgs,
                   opsStarted, restored, sessionDups, orphans, pairVars>>

\* ------------------------------------------------------ updateSession
\* lifecycle events whose handler only calls updateSession, and the status
\* each of them writes
Lifecycle == {"qr", "auth_failure", "disconnected"}
EventStatus(ev) ==
    CASE ev = "qr" -> "pending"
      [] ev = "auth_failure" -> "failed"
      [] OTHER -> "disconnected"

\* client.on('qr' | 'auth_failure' | 'disconnected'): the handler of an
\* event of the registered connection starts; a connection that reports
\* 'disconnected' is closed
providerEventStart(s, c, ev) ==
    /\ CanStart(s)
    /\ clients[c] = IF ev = "disconnected" THEN "ready" ELSE "init"
    /\ clients' = IF ev = "disconnected"
                  THEN [clients EXCEPT ![c] = "closed"] ELSE clients
    /\ Begin(s, [Idle EXCEPT !.op = "updateSession", !.pc = "us_find",
                             !.clientId = c, !.status = EventStatus(ev)])
    /\ UNCHANGED <<credits, creditLog, messages, sessions, provMsgs,
                   restored, sessionDups, orphans, pairVars>>

\* updateSession: whatsAppSession.findFirst({ where: { clientId } })
updateSessionFind(s) ==
    /\ At(s, "us_find")
    /\ calls' = [calls EXCEPT ![s].pc = "us_write",
                              ![s].statusRead = sessions[calls[s].clientId]]
    /\ UNCHANGED <<credits, creditLog, messages, sessions, clients, provMsgs,
                   opsStarted, restored, sessionDups, orphans, pairVars>>

\* updateSession: update({ where: { id } }) of the row found (it throws
\* when the row is gone, and the error is swallowed), or create when none
\* was found; a created row is a further row when one exists by now
updateSessionWrite(s) ==
    /\ At(s, "us_write")
    /\ LET c == calls[s].clientId
           create == calls[s].statusRead = "absent" IN
       /\ sessions' = IF create = (sessions[c] = "absent")
                      THEN [sessions EXCEPT ![c] = calls[s].status]
                      ELSE sessions
       /\ sessionDups' = IF create /\ sessions[c] # "absent"
                         THEN [sessionDups EXCEPT ![c] = @ + 1]
                         ELSE sessionDups
       /\ calls' = [calls EXCEPT ![s] =
             Finish([@ EXCEPT !.rows = IF create THEN 1 ELSE 0], "success")]
    /\ UNCHANGED <<credits, creditLog, messages, clients, provMsgs,
                   opsStarted, restored, orphans, pairVars>>

\* initializeClient called by connectWhatsApp, up to its await: the early
\* return when a handle is registered, else setupEventHandlers and
\* clients.set
connectRegister(s) ==
    /\ At(s, "conn_init")
    /\ LET c == calls[s].clientId IN
       /\ clients' = IF clients[c] = "none"
                     THEN [clients EXCEPT ![c] = "init"] ELSE clients
       /\ calls' = [calls EXCEPT ![s].pc =
             IF clients[c] = "none" THEN "conn_initialize" ELSE "conn_poll"]
    /\ UNCHANGED <<credits, creditLog, messages, sessions, provMsgs,
                   opsStarted, restored, sessionDups, orphans, pairVars>>

\* initializeClient after client.initialize() has settled: updateSession
\* (active), or clients.delete, updateSession(failed) and the Log row; this
\* updateSession runs without another handler in between
connectInitialized(s, ok) ==
    /\ At(s, "conn_initialize")
    /\ LET c == calls[s].clientId
           st == IF ok THEN "active" ELSE "failed" IN
       /\ clients' = IF ok THEN clients ELSE [clients EXCEPT ![c] = "none"]
       /\ sessions' = [sessions EXCEPT ![c] = st]
       /\ calls' = [calls EXCEPT
             ![s].pc = "conn_poll",
             ![s].initFailed = ~ok,
             ![s].initLog = IF ok THEN <<>>
                            ELSE <<"client_initialization_error">>]
    /\ UNCHANGED <<credits, creditLog, messages, provMsgs, opsStarted,
                   restored, sessionDups, orphans, pairVars>>

LifecycleNext ==
    \/ \E s \in Slots : Return(s)
    \/ \E s \in Slots, c \in Clients : providerReady(s, c)
    \/ \E s \in Slots : syncFetch(s)
    \/ \E s \in Slots : syncCreate(s)
    \/ \E s \in Slots : syncCleanup(s)
    \/ \E c \in Clients : providerReceive(c)
    \/ \E s \in Slots, c \in Clients, ev \in Lifecycle :
          providerEventStart(s, c, ev)
    \/ \E s \in Slots : updateSessionFind(s)
    \/ \E s \in Slots : updateSessionWrite(s)
    \/ \E s \in Slots, c \in Clients, ok \in BOOLEAN : healthCheck(s, c, ok)
    \/ \E s \in Slots, c \in Clients : connectWhatsAppStart(s, c)
    \/ \E s \in Slots : connectCheck(s)
    \/ \E s \in Slots : connectRegister(s)
    \/ \E s \in Slots, ok \in BOOLEAN : connectInitialized(s, ok)
    \/ \E s \in Slots : connectPoll(s)
    \/ \E s \in Slots, c \in Clients : disconnectWhatsAppStart(s, c)
    \/ \E s \in Slots, ok \in BOOLEAN : disconnectHandle(s, ok)
    \/ \E s \in Slots : disconnectSessions(s)
    \/ \E s \in Slots : disconnectMessages(s)

\* persisted session status at a process start
SessionStatuses == {"absent", "pending", "active", "failed", "disconnected"}

\* start of SessionSpec: the process starts on a store left by an earlier
\* run; a tenant that never connected holds no messages
SessionInit ==
    /\ credits = [c \in Clients |-> MaxCredits]
    /\ creditLog = [c \in Clients |->
          <<[type |-> "INCREMENT", amount |-> MaxCredits]>>]
    /\ sessions \in [Clients -> SessionStatuses]
    /\ messages = {OldRow(c, i) : c \in {x \in Clients : sessions[x] # "absent"},
                                  i \in 1..PreRows}
    /\ clients = [c \in Clients |-> "none"]
    /\ provMsgs = {}
    /\ calls = [s \in Slots |-> Idle]
    /\ opsStarted = 0
    /\ restored = [ran |-> FALSE, resync |-> {}]
    /\ QuietInit

SessionNext ==
    \/ \E s \in Slots : Return(s)
    \/ \E oks \in [Clients -> BOOLEAN] : restoreActiveSessions(oks)
    \/ \E s \in Slots, c \in Clients : restoreResync(s, c)
    \/ \E s \in Slots, c \in Clients : providerReady(s, c)
    \/ \E c \in Clients : providerQr(c)
    \/ \E c \in Clients : providerAuthFailure(c)
    \/ \E c \in Clients : providerDisconnected(c)
    \/ \E c \in Clients : providerReceive(c)
    \/ \E s \in Slots : syncFetch(s)
    \/ \E s \in Slots : syncCreate(s)
    \/ \E s \in Slots : syncCleanup(s)
    \/ \E s \in Slots, c \in Clients, ok \in BOOLEAN : healthCheck(s, c, ok)
    \/ \E c \in Clients : orphanQr(c)
    \/ \E s \in Slots, c \in Clients : connectWhatsAppStart(s, c)
    \/ \E s \in Slots : connectCheck(s)
    \/ \E s \in Slots, ok \in BOOLEAN : connectInit(s, ok)
    \/ \E s \in Slots : connectPoll(s)
    \/ \E s \in Slots, c \in Clients : disconnectWhatsAppStart(s, c)
    \/ \E s \in Slots, ok \in BOOLEAN : disconnectHandle(s, ok)
    \/ \E s \in Slots : disconnectSessions(s)
    \/ \E s \in Slots : disconnectMessages(s)
    \/ \E s \in Slots, c \in Clients, body \in Bodies, type \in Types :
          handleIncomingMessageStart(s, c, body, type)
    \/ \E s \in Slots : incomingFind(s)
    \/ \E s \in Slots : incomingCreate(s)
    \/ \E s \in Slots, sent \in BOOLEAN : incomingReply(s, sent)

SessionSpec == SessionInit /\ [][SessionNext]_vars

LifecycleSpec == SessionInit /\ [][LifecycleNext]_vars

\* ------------------------------------------------------ repeated delivery
ReplyOps == 4        \* operations started in one run of ReplySpec

\* start of ReplySpec: the tenant is connected and its store holds the
\* rows of earlier traffic
ReplyInit ==
    /\ credits = [c \in Clients |-> MaxCredits]
    /\ creditLog = [c \in Clients |->
          <<[type |-> "INCREMENT", amount |-> MaxCredits]>>]
    /\ messages = {OldRow(c, i) : c \in Clients, i \in 1..PreRows}
    /\ sessions = [c \in Clients |-> "active"]
    /\ clients = [c \in Clients |-> "ready"]
    /\ provMsgs = {}
    /\ calls = [s \in Slots |-> Idle]
    /\ opsStarted = MaxOps - ReplyOps
    /\ restored = [ran |-> TRUE, resync |-> {}]
    /\ QuietInit

\* the inbound handler with the live event delivered again, the reconcile
\* pass of a 'ready' event, and the tenant disconnecting and connecting
ReplyNext ==
    \/ \E s \in Slots : Return(s)
    \/ \E s \in Slots, c \in Clients, body \in Bodies, type \in Types :
          handleIncomingMessageStart(s, c, body, type)
    \/ \E s \in Slots, mid \in 1..MaxProv : handleIncomingMessageAgain(s, mid)
    \/ \E s \in Slots : incomingFind(s)
    \/ \E s \in Slots : incomingCreate(s)
    \/ \E s \in Slots, sent \in BOOLEAN : incomingReply(s, sent)
    \/ \E s \in Slots, c \in Clients : providerReady(s, c)
    \/ \E s \in Slots : syncFetch(s)
    \/ \E s \in Slots : syncCreate(s)
    \/ \E s \in Slots : syncCleanup(s)
    \/ \E s \in Slots, c \in Clients : connectWhatsAppStart(s, c)
    \/ \E s \in Slots : connectCheck(s)
    \/ \E s \in Slots, ok \in BOOLEAN : connectInit(s, ok)
    \/ \E s \in Slots : connectPoll(s)
    \/ \E s \in Slots, c \in Clients : disconnectWhatsAppStart(s, c)
    \/ \E s \in Slots, ok \in BOOLEAN : disconnectHandle(s, ok)
    \/ \E s \in Slots : disconnectSessions(s)
    \/ \E s \in Slots : disconnectMessages(s)

ReplySpec == ReplyInit /\ [][ReplyNext]_vars

\* ------------------------------------------------------ conversation thread
getConversationMessagesStart(s, c, limit, offset) ==
    /\ CanStart(s)
    /\ Begin(s, [Idle EXCEPT !.op = "getConversationMessages",
                             !.pc = "auto_sync", !.ret = "thread_query",
                             !.clientId = c, !.limit = limit,
                             !.offset = offset])
    /\ UNCHANGED <<credits, creditLog, messages, sessions, clients, provMsgs,
                   restored, sessionDups, orphans, pairVars>>

\* autoSyncMessages: nothing without a handle that has info or within the
\* cooldown; otherwise syncAllMessages, whose errors are swallowed
autoSyncMessages(s) ==
    /\ At(s, "auto_sync")
    /\ calls' = [calls EXCEPT ![s].pc =
          IF clients[calls[s].clientId] \in {"ready", "closed"}
             /\ ~LastSyncRecent(calls[s].clientId)
          THEN "sync_fetch" ELSE calls[s].ret]
    /\ UNCHANGED <<credits, creditLog, messages, sessions, clients, provMsgs,
                   opsStarted, restored, sessionDups, orphans, pairVars>>

\* an order of the rows of a tenant by their keys
IdLess(a, b) ==
    \/ a.messageId < b.messageId
    \/ a.messageId = b.messageId /\ a.copy < b.copy

\* orderBy timestamp desc: a before b; the store's order of rows with equal
\* timestamps is not specified, tieUp picks one
Before(a, b, tieUp) ==
    \/ a.timestamp > b.timestamp
    \/ /\ a.timestamp = b.timestamp
       /\ IF tieUp THEN IdLess(a, b) ELSE IdLess(b, a)

\* findMany({ orderBy: timestamp desc, take, skip }): the rows after the
\* skip newest, at most take of them
RECURSIVE FindManyDesc(_, _, _, _)
FindManyDesc(rows, take, skip, tieUp) ==
    IF rows = {} \/ take = 0 THEN <<>>
    ELSE LET first == CHOOSE a \in rows :
                         \A b \in rows \ {a} : Before(a, b, tieUp) IN
         IF skip > 0 THEN FindManyDesc(rows \ {first}, take, skip - 1, tieUp)
         ELSE <<first>> \o FindManyDesc(rows \ {first}, take - 1, 0, tieUp)

\* a thread handed out as the store returned it
NewestFirst(page) == page

\* messages.reverse()
Reverse(page) == [i \in 1..Len(page) |-> page[Len(page) + 1 - i]]

\* getConversationMessages: the page query and the reversal; all rows of the
\* tenant belong to the one conversation asked for
threadQuery(s, tieUp) ==
    /\ At(s, "thread_query")
    /\ LET c == calls[s].clientId
           page == FindManyDesc({r \in messages : r.clientId = c},
                                calls[s].limit, calls[s].offset, tieUp) IN
       calls' = [calls EXCEPT ![s] =
          Finish([@ EXCEPT !.thread = Reverse(page)], "success")]
    /\ UNCHANGED <<credits, creditLog, messages, sessions, clients, provMsgs,
                   opsStarted, restored, sessionDups, orphans, pairVars>>

\* ------------------------------------------------------ reconcile passes
\* the rows one syncAllMessages pass leaves after its message loop: for each
\* fetched message, skip it when the tenant has it, else message.create
\* (rejected by the unique index when another row has the id)
RECURSIVE SyncRows(_, _, _)
SyncRows(rows, c, todo) ==
    IF todo = <<>> THEN rows
    ELSE LET m == ProvById(Head(todo))
             row == [messageId |-> m.messageId, copy |-> 0, clientId |-> c,
                     timestamp |-> m.timestamp,
                     direction |-> IF m.fromMe THEN "OUTBOUND" ELSE "INBOUND",
                     status |-> "PENDING"]
         IN IF \E r \in rows : r.messageId = m.messageId
            THEN SyncRows(rows, c, Tail(todo))
            ELSE SyncRows(rows \cup {row}, c, Tail(todo))

\* a pass that trims before it stores
TrimThenSync(rows, c) ==
    SyncRows(cleanupOldMessages(rows, c), c,
             SetToSeq({m.messageId : m \in {x \in provMsgs : x.clientId = c}}))

\* the rows a whole syncAllMessages pass leaves when nothing else runs
syncAllMessagesPass(rows, c) ==
    cleanupOldMessages(
        SyncRows(rows, c,
                 SetToSeq({m.messageId : m \in {x \in provMsgs : x.clientId = c}})),
        c)

\* a provider history of h messages; with tie, the message at the 21st
\* newest place has the timestamp of the 20th, and the two newest messages
\* have the same timestamp (provider timestamps are whole seconds)
HistTs(i, h, tie) ==
    IF tie /\ (i = h - KeepSkip - 1 \/ i = h - 1) THEN i + 1 ELSE i
HistMsg(c, i, h, tie) ==
    [messageId |-> i, clientId |-> c, timestamp |-> HistTs(i, h, tie),
     fromMe |-> (i % 2 = 0), replyTo |-> NullId]
HistRow(c, i, h, tie) ==
    [messageId |-> i, copy |-> 0, clientId |-> c,
     timestamp |-> HistTs(i, h, tie),
     direction |-> IF i % 2 = 0 THEN "OUTBOUND" ELSE "INBOUND",
     status |-> "PENDING"]

\* start of StoreSpec: a ready handle, a provider history of h messages, and
\* a store that holds the 20 messages before the k newest
StoreInit ==
    /\ credits = [c \in Clients |-> MaxCredits]
    /\ creditLog = [c \in Clients |->
          <<[type |-> "INCREMENT", amount |-> MaxCredits]>>]
    /\ sessions = [c \in Clients |-> "active"]
    /\ clients = [c \in Clients |-> "ready"]
    /\ calls = [s \in Slots |-> Idle]
    /\ opsStarted = 0
    /\ restored = [ran |-> TRUE, resync |-> {}]
    /\ QuietInit
    /\ \E h \in (MaxHistory - 2)..MaxHistory, tie \in BOOLEAN,
          k \in 0..MaxMissing :
          /\ provMsgs = {HistMsg(c, i, h, tie) : c \in Clients, i \in 1..h}
          /\ messages = {HistRow(c, i, h, tie) : c \in Clients,
                            i \in (h - k - KeepSkip)..(h - k)}

StoreNext ==
    \/ \E s \in Slots : Return(s)
    \/ \E s \in Slots, c \in Clients : syncAllMessagesStart(s, c)
    \/ \E s \in Slots : syncFetch(s)
    \/ \E s \in Slots : syncCreate(s)
    \/ \E s \in Slots : syncCleanup(s)
    \/ \E s \in Slots, c \in Clients, limit \in 1..MaxLimit,
          offset \in 0..MaxOffset :
          getConversationMessagesStart(s, c, limit, offset)
    \/ \E s \in Slots : autoSyncMessages(s)
    \/ \E s \in Slots, tieUp \in BOOLEAN : threadQuery(s, tieUp)

StoreSpec == StoreInit /\ [][StoreNext]_vars

\* ------------------------------------------------------ properties
\* C1: in every reachable state, under any interleaving of increment,
\* decrement and send operations, the credit balance of a tenant is >= 0.
C1_BalanceNeverNegative == \A c \in Clients : credits[c] >= 0

\* C2: at no time do two Message rows of one tenant carry the same provider
\* message id, whatever the interleaving of the inbound handler, reconcile
\* and the send paths.
C2_NoDuplicateMessageId ==
    \A r1 \in messages : \A r2 \in messages :
        (/\ r1.clientId = r2.clientId
         /\ r1.messageId = r2.messageId
         /\ r1.messageId # NullId) => r1 = r2

\* C2 case: a writer that found no row lost the race and its insert of the
\* same message id was turned down
C2_InsertLostRace ==
    \E s \in Slots : /\ calls[s].pc = "done"
                     /\ calls[s].op \in {"handleIncomingMessage",
                                         "syncAllMessages", "ready"}
                     /\ calls[s].dupBlocked > 0

\* C3: when a sendMessage, sendBulkMessage or reconcile call has completed,
\* the tenant has at most 20 stored messages.
C3_AtMostTwentyKept ==
    \A s \in Slots :
        (/\ calls[s].pc = "done"
         /\ calls[s].op \in {"sendMessage", "sendBulkMessage",
                             "syncAllMessages", "ready"}
         /\ calls[s].result = "success")
        => Cardinality({r \in messages : r.clientId = calls[s].clientId})
              <= KeepSkip + 1

\* C4: a sendBulkMessage call for N addresses that reads a balance below N
\* is rejected as a whole: no provider send is attempted, no ledger entry is
\* written and the call debits nothing.
C4_BulkRejectedWhole ==
    \A s \in Slots :
        (/\ calls[s].pc = "done"
         /\ calls[s].op = "sendBulkMessage"
         /\ calls[s].creditsRead # NotRead
         /\ calls[s].creditsRead < Len(calls[s].phones))
        => /\ calls[s].result = "insufficient"
           /\ calls[s].attempts = 0
           /\ calls[s].sends = 0
           /\ calls[s].rows = 0
           /\ calls[s].debited = 0
           /\ calls[s].ledgered = <<>>

\* C4 case: a bulk call for two addresses was rejected on a balance of one
C4_BulkRejectedWithCredit ==
    \E s \in Slots : /\ calls[s].pc = "done"
                     /\ calls[s].op = "sendBulkMessage"
                     /\ calls[s].creditsRead = 1
                     /\ Len(calls[s].phones) = 2
                     /\ calls[s].result = "insufficient"

\* C5: at all times, also between the individual writes of an operation,
\* the balance of a tenant equals the signed sum of its ledger entries.
C5_BalanceEqualsLedger ==
    \A c \in Clients : credits[c] = LedgerSum(creditLog[c])

\* C6: a sendMessage call that reads a balance >= 1 and whose provider send
\* succeeds reports success, debits exactly 1, writes exactly one DECREMENT
\* entry of 1 and leaves exactly one OUTBOUND row with the provider's message
\* id and status SENT, whether or not the address has a Contact row.
C6_SendOneSuccess ==
    \A s \in Slots :
        (/\ calls[s].pc = "done"
         /\ calls[s].op = "sendMessage"
         /\ calls[s].creditsRead >= requiredCredits
         /\ calls[s].sends = 1)
        => /\ calls[s].result = "success"
           /\ calls[s].debited = requiredCredits
           /\ calls[s].ledgered =
                 <<[type |-> "DECREMENT", amount |-> requiredCredits]>>
           /\ Cardinality({r \in messages :
                              /\ r.clientId = calls[s].clientId
                              /\ r.messageId = calls[s].sentMsg
                              /\ r.direction = "OUTBOUND"
                              /\ r.status = "SENT"}) = 1

\* C7: a sendMessage call that reads a balance of 0 fails with
\* "insufficient credits": no provider send is attempted, the call writes no
\* Message row and no ledger entry and debits nothing.
C7_SendOneZeroBalance ==
    \A s \in Slots :
        (/\ calls[s].pc = "done"
         /\ calls[s].op = "sendMessage"
         /\ calls[s].creditsRead = 0)
        => /\ calls[s].result = "insufficient"
           /\ calls[s].attempts = 0
           /\ calls[s].sends = 0
           /\ calls[s].rows = 0
           /\ calls[s].debited = 0
           /\ calls[s].ledgered = <<>>

\* C7 case: a send was turned down after the balance had been used up
C7_SendRejectedAtZero ==
    \E s \in Slots : /\ calls[s].pc = "done"
                     /\ calls[s].op = "sendMessage"
                     /\ calls[s].creditsRead = 0
                     /\ credits[calls[s].clientId] = 0
                     /\ calls[s].result = "insufficient"

C9_BulkDebitsSuccessfulSends ==
    \A s \in Slots :
        (/\ calls[s].pc = "done"
         /\ calls[s].op = "sendBulkMessage"
         /\ calls[s].result = "success")
        => /\ calls[s].debited = calls[s].sends
           /\ calls[s].ledgered =
                 IF calls[s].sends = 0 THEN <<>>
                 ELSE <<[type |-> "DECREMENT", amount |-> calls[s].sends]>>

\* C10: in a sendBulkMessage call that got past the balance test, a
\* recipient whose send fails is recorded as failed and the batch goes on:
\* every input address has exactly one result entry, every address was
\* attempted, and the successful entries are the rows the call stored.
C10_BulkOneResultPerAddress ==
    \A s \in Slots :
        (/\ calls[s].pc = "done"
         /\ calls[s].op = "sendBulkMessage"
         /\ calls[s].result = "success")
        => /\ Len(calls[s].results) = Len(calls[s].phones)
           /\ calls[s].attempts >= Len(calls[s].phones)
           /\ Len(SelectSeq(calls[s].results, LAMBDA b : b)) = calls[s].rows

\* C10 case: the first recipient failed, the second was sent
C10_FailedThenSent ==
    \E s \in Slots : /\ calls[s].pc = "done"
                     /\ calls[s].op = "sendBulkMessage"
                     /\ calls[s].results = <<FALSE, TRUE>>

\* C11: reconcile is idempotent: when a syncAllMessages pass has completed
\* and nothing else is in flight, a second pass against the same provider
\* history leaves exactly the stored messages of the first, also when the
\* first pass trimmed messages the provider still returns.
C11_ReconcileIdempotent ==
    \A s \in Slots :
        (/\ calls[s].pc = "done"
         /\ calls[s].op = "syncAllMessages"
         /\ calls[s].result = "success"
         /\ \A t \in Slots \ {s} : Free(t))
        => syncAllMessagesPass(messages, calls[s].clientId) = messages

\* C11 case: the completed pass stored messages and its trim deleted
\* messages that the provider still returns
C11_PassTrimmedHistory ==
    \E s \in Slots :
        /\ calls[s].pc = "done"
        /\ calls[s].op = "syncAllMessages"
        /\ calls[s].result = "success"
        /\ calls[s].synced > 0
        /\ \A t \in Slots \ {s} : Free(t)
        /\ \E m \in provMsgs :
              /\ m.clientId = calls[s].clientId
              /\ ~ExistsMessage(m.clientId, m.messageId)

\* C12: when disconnectWhatsApp returns success, the tenant has no session
\* row, no stored message and no provider handle in the registry.
C12_DisconnectLeavesNothing ==
    \A s \in Slots :
        (/\ calls[s].pc = "done"
         /\ calls[s].op = "disconnectWhatsApp"
         /\ calls[s].result = "success")
        => /\ sessions[calls[s].clientId] = "absent"
           /\ {r \in messages : r.clientId = calls[s].clientId} = {}
           /\ clients[calls[s].clientId] = "none"

\* C13: every change of a tenant's persisted session status made by connect,
\* the health check, startup recovery or a provider event is one of
\* absent->pending, pending->active, active->disconnected, pending->failed,
\* active->failed, disconnected->pending, failed->pending (the deletion of
\* the row by disconnectWhatsApp is not a step of this machine).
C13_StatusMachine ==
    [][\A c \in Clients :
          (sessions'[c] # sessions[c] /\ sessions'[c] # "absent")
          => <<sessions[c], sessions'[c]>> \in
                {<<"absent", "pending">>, <<"pending", "active">>,
                 <<"active", "disconnected">>, <<"pending", "failed">>,
                 <<"active", "failed">>, <<"disconnected", "pending">>,
                 <<"failed", "pending">>}]_vars

\* C14: when a connectWhatsApp call that found the status absent, failed or
\* disconnected has completed and the registry holds a handle for the
\* tenant, the session status is pending.
C14_ConnectSetsPending ==
    \A s \in Slots :
        (/\ calls[s].pc = "done"
         /\ calls[s].op = "connectWhatsApp"
         /\ calls[s].statusRead \in {"absent", "failed", "disconnected"}
         /\ clients[calls[s].clientId] # "none")
        => sessions[calls[s].clientId] = "pending"

\* C15: a connectWhatsApp call that finds the session status active is
\* rejected and is a no-op: its check ends the call with the
\* 'already connected' failure and leaves the registry, the session row and
\* the messages unchanged, and such a call never reaches initializeClient or
\* the poll.
C15_ConnectActiveRejected ==
    [][\A s \in Slots :
          /\ (/\ calls[s].op = "connectWhatsApp"
              /\ calls[s].pc = "conn_check"
              /\ sessions[calls[s].clientId] = "active"
              /\ calls'[s] # calls[s])
             => /\ calls'[s].pc = "done"
                /\ calls'[s].result = "already_connected"
                /\ UNCHANGED <<clients, sessions, messages,
                               sessionDups, orphans, pairVars>>
          /\ (/\ calls'[s].op = "connectWhatsApp"
              /\ calls'[s].statusRead = "active")
             => calls'[s].pc = "done"]_vars

\* C15 case: a connectWhatsApp call for a tenant with an active session and
\* a ready handle has been rejected.
C15_RejectedWhileActive ==
    \E s \in Slots : /\ calls[s].pc = "done"
                     /\ calls[s].op = "connectWhatsApp"
                     /\ calls[s].statusRead = "active"
                     /\ calls[s].result = "already_connected"
                     /\ clients[calls[s].clientId] = "ready"

\* C16: when a checkAndReconnectClient call returns: if it found no handle,
\* or a handle that is not ready, a newly initialized handle is registered
\* and the session is active, or, when the initialization failed, no handle
\* is registered and the session is failed; if it found a ready handle, the
\* handle and the session status are what they were.
C16_HealthCheckOutcome ==
    \A s \in Slots :
        (calls[s].pc = "done" /\ calls[s].op = "checkAndReconnectClient")
        => LET c == calls[s].clientId IN
           IF calls[s].handleRead \in {"none", "init"}
           THEN /\ calls[s].result =
                      (IF calls[s].handleRead = "none" THEN "initialized"
                       ELSE "reconnected")
                /\ \/ clients[c] = "init" /\ sessions[c] = "active"
                   \/ clients[c] = "none" /\ sessions[c] = "failed"
           ELSE /\ calls[s].result = "healthy"
                /\ clients[c] = calls[s].handleRead
                /\ sessions[c] = calls[s].statusRead

\* C16 case: a health check found a handle that was not ready, whose
\* session was waiting for a QR scan, and has replaced it.
C16_ReplacedNotReadyHandle ==
    \E s \in Slots : /\ calls[s].pc = "done"
                     /\ calls[s].op = "checkAndReconnectClient"
                     /\ calls[s].handleRead = "init"
                     /\ calls[s].statusRead = "pending"
                     /\ clients[calls[s].clientId] = "init"
                     /\ sessions[calls[s].clientId] = "active"

C18_ThreadOldestFirst ==
    \A s \in Slots :
        (calls[s].pc = "done" /\ calls[s].op = "getConversationMessages")
        => \A i \in 1..(Len(calls[s].thread) - 1) :
              calls[s].thread[i].timestamp <= calls[s].thread[i + 1].timestamp

\* C18 case: a call with a non-zero offset whose own reconcile stored
\* messages has returned a page of several timestamps.
C18_PageAfterReconcile ==
    \E s \in Slots : /\ calls[s].pc = "done"
                     /\ calls[s].op = "getConversationMessages"
                     /\ calls[s].synced > 0
                     /\ calls[s].offset > 0
                     /\ Len(calls[s].thread) = MaxLimit
                     /\ calls[s].thread[1].timestamp
                           < calls[s].thread[MaxLimit].timestamp

\* C19: on every store the program reaches, an acknowledgment with code 2
\* for a provider message id sets the status of the rows with that id to
\* DELIVERED and leaves every other row as it is; for an id that is not
\* stored it leaves the store as it is.
C19_AckDelivered ==
    \A mid \in {r.messageId : r \in messages} \cup 1..(MaxProv + 1) :
        LET after == messageAckPass(messages, mid, 2)
            hit == {r \in messages : r.messageId = mid} IN
        /\ after = {[r EXCEPT !.status = "DELIVERED"] : r \in hit}
                      \cup (messages \ hit)
        /\ hit = {} => after = messages

\* C19 case: an acknowledgment with code 2 has set a sent message to
\* DELIVERED while other rows are stored with their own status, and a
\* provider message of the tenant has no row.
C19_DeliveredAmongOthers ==
    /\ \E r \in messages, m \in provMsgs :
          /\ r.status = "DELIVERED"
          /\ m.messageId = r.messageId /\ m.fromMe
    /\ \E r \in messages : r.status # "DELIVERED"
    /\ \E m \in provMsgs : \A r \in messages : r.messageId # m.messageId

\* C20: an inbound event whose message has an empty body or the type
\* e2e_notification is ignored: the handler returns 'skipped' at once,
\* having stored no row, written no audit log, sent no auto-reply and
\* emitted no event, and the store, the ledger and the sessions are as
\* before.
C20_SkippedInboundIgnored ==
    [][\A s \in Slots :
          (/\ calls'[s].op = "handleIncomingMessage"
           /\ calls[s].op # "handleIncomingMessage"
           /\ (calls'[s].body = "" \/ calls'[s].type = "e2e_notification"))
          => /\ calls'[s].pc = "done"
             /\ calls'[s].result = "skipped"
             /\ calls'[s].rows = 0
             /\ calls'[s].events = 0
             /\ calls'[s].sends = 0
             /\ \A m \in provMsgs' \ provMsgs : ~m.fromMe
             /\ UNCHANGED <<messages, credits, creditLog, sessions,
                            clients, sessionDups, orphans, pairVars>>]_vars

\* C20 case: a notification that carries a text has been skipped on a
\* tenant with stored messages.
C20_NotificationSkipped ==
    \E s \in Slots : /\ calls[s].pc = "done"
                     /\ calls[s].op = "handleIncomingMessage"
                     /\ calls[s].body = "text"
                     /\ calls[s].type = "e2e_notification"
                     /\ calls[s].result = "skipped"
                     /\ messages # {}

\* C21: the inbound handler's dedup lookup for a provider message id that
\* is stored for the tenant ends the call with 'skipped': the call has
\* created no row, written no audit log, sent no auto-reply and emitted no
\* event, and the step writes nothing.
C21_DuplicateInboundSkipped ==
    [][\A s \in Slots :
          (/\ calls[s].op = "handleIncomingMessage"
           /\ calls[s].pc = "in_find"
           /\ calls'[s] # calls[s]
           /\ \E r \in messages : /\ r.clientId = calls[s].clientId
                                   /\ r.messageId = Head(calls[s].todo))
          => /\ calls'[s].pc = "done"
             /\ calls'[s].result = "skipped"
             /\ calls'[s].rows = 0
             /\ calls'[s].events = 0
             /\ calls'[s].sends = 0
             /\ UNCHANGED <<messages, provMsgs, credits, creditLog,
                            sessions, clients, sessionDups, orphans, pairVars>>]_vars

\* C21 case: an inbound event for a chat message with a text, whose id was
\* stored already, has been skipped.
C21_StoredInboundSkipped ==
    \E s \in Slots : /\ calls[s].pc = "done"
                     /\ calls[s].op = "handleIncomingMessage"
                     /\ calls[s].body = "text"
                     /\ calls[s].type = "chat"
                     /\ calls[s].result = "skipped"
                     /\ calls[s].rows = 0

\* C22: no sendMessage or sendBulkMessage call ends with an exception that
\* leaves the operation: every call that has ended has returned a result.
C22_NoUnhandledFault ==
    \A s \in Slots : calls[s].pc = "done" => calls[s].result # "unhandled"

\* C23: a sendMessage call whose provider send succeeded and whose
\* SEND_MESSAGE audit-log write failed is still reported as success.
C23_AuditFailureStillSuccess ==
    \A s \in Slots :
        (/\ calls[s].pc = "done"
         /\ calls[s].op = "sendMessage"
         /\ calls[s].sends = 1
         /\ calls[s].logFailed)
        => calls[s].result = "success"

\* C24: incrementCredits accepts positive amounts only: no INCREMENT ledger
\* entry has an amount <= 0, and no incrementCredits call that has ended
\* with success was made with an amount <= 0.
C24_IncrementPositiveOnly ==
    /\ \A c \in Clients : \A i \in DOMAIN creditLog[c] :
          creditLog[c][i].type = "INCREMENT" => creditLog[c][i].amount > 0
    /\ \A s \in Slots :
          (/\ calls[s].pc = "done"
           /\ calls[s].op = "incrementCredits"
           /\ calls[s].result = "success")
          => calls[s].amount > 0

\* C25: every successful send has emitted one message_sent event: a
\* sendMessage call that returns success has emitted one, a sendBulkMessage
\* call that returns has emitted one for each recipient it counts as sent.
C25_SendEmitsMessageSent ==
    \A s \in Slots :
        (calls[s].pc = "done" /\ calls[s].result = "success")
        => /\ calls[s].op = "sendMessage" => calls[s].events = 1
           /\ calls[s].op = "sendBulkMessage"
                 => calls[s].events = calls[s].successfulMessages

\* C26: a step sets a tenant's session status to active only when the
\* tenant's handle has reported ready, the provider's event that follows
\* authentication.
C26_ActiveOnlyWhenAuthenticated ==
    [][\A c \in Clients :
          (sessions'[c] = "active" /\ sessions[c] # "active")
          => clients'[c] = "ready"]_vars

C28_AtMostThreeAttempts ==
    [][\A s \in Slots :
          (/\ calls[s].pc = "send"
           /\ calls'[s] # calls[s])
          => LET made == IF calls[s].op = "sendMessage"
                         THEN calls'[s].attempts
                         ELSE calls'[s].attempts - calls[s].attempts
                 sent == calls'[s].sends - calls[s].sends IN
             /\ made \in 1..3
             /\ sent \in {0, 1}
             /\ sent = 1 => /\ calls'[s].retryCount = made - 1
                            /\ calls'[s].sentMsg # NullId
             /\ sent = 0 => /\ made = 3
                            /\ provMsgs' = provMsgs
                            /\ IF calls[s].op = "sendMessage"
                               THEN calls'[s].pc = "catch"
                               ELSE calls'[s].results =
                                       Append(calls[s].results, FALSE)]_vars

\* C28 case: a sendBulkMessage call has given up on one recipient after
\* three failed attempts and has reached the next one at its third attempt.
C28_BulkRetriedThenSent ==
    \E s \in Slots : /\ calls[s].op = "sendBulkMessage"
                     /\ calls[s].results = <<FALSE>>
                     /\ calls[s].attempts = 6
                     /\ calls[s].retryCount = 2
                     /\ calls[s].sends = 1

\* C29: of the send-failure categories only a chat-access failure is
\* retried; a sendMessage call whose provider attempt failed in any other
\* category has made a single attempt.
C29_OnlyChatAccessRetried ==
    \A s \in Slots :
        (/\ calls[s].op = "sendMessage"
         /\ calls[s].error \in Errors \ {"chat_access"})
        => calls[s].attempts <= 1

\* C30: the cooldown guard skips reconciliation for a tenant reconciled less
\* than 5 minutes ago: while an operation whose own reconcile pass for the
\* tenant has completed is still in progress, a guarded reconcile of another
\* send or read for the same tenant starts no pass (no provider fetch, no
\* store write).
C30_CooldownSkipsReconcile ==
    [][\A s, t \in Slots :
          (/\ s # t
           /\ calls[t].passDone
           /\ calls[t].clientId = calls[s].clientId
           /\ calls[s].pc \in {"health", "auto_sync"})
          => calls'[s].pc \notin {"sync_fetch", "sync_create",
                                  "sync_cleanup"}]_vars

\* C31: acknowledgments are applied last-arrival-wins: when a message_ack
\* handler has applied its code, every row of the message has the status
\* that code maps to (0 PENDING, 1 SENT, 2 DELIVERED, 3 READ, -1 FAILED),
\* whatever the status was before.
C31_LastAckWins ==
    \A s \in Slots :
        (calls[s].op = "message_ack" /\ calls[s].pc = "done")
        => \A r \in messages :
              r.messageId = calls[s].sentMsg
              => r.status = CASE calls[s].ack = 0 -> "PENDING"
                              [] calls[s].ack = 1 -> "SENT"
                              [] calls[s].ack = 2 -> "DELIVERED"
                              [] calls[s].ack = 3 -> "READ"
                              [] OTHER -> "FAILED"

\* C31 case: a 'sent' acknowledgment has been applied to a message that
\* the handler found READ; the message is SENT.
C31_SentAfterRead ==
    \E s \in Slots :
        /\ calls[s].op = "message_ack" /\ calls[s].pc = "done"
        /\ calls[s].ack = 1 /\ calls[s].statusRead = "READ"
        /\ \E r \in messages : /\ r.messageId = calls[s].sentMsg
                                /\ r.status = "SENT"

\* C32: when the provider connection of a tenant fails to initialize, in
\* the state that follows the session status is failed, no handle is in the
\* registry and the call has written a 'client_initialization_error' Log
\* row.
C32_InitFailureRecorded ==
    [][\A s \in Slots :
          ~calls[s].initFailed /\ calls'[s].initFailed
          => /\ sessions'[calls'[s].clientId] = "failed"
             /\ clients'[calls'[s].clientId] = "none"
             /\ calls'[s].initLog = <<"client_initialization_error">>]_vars

\* C32 case: a connectWhatsApp call whose initialization was rejected is
\* polling; the session is failed and no handle is registered.
C32_ConnectInitFailed ==
    \E s \in Slots : /\ calls[s].op = "connectWhatsApp"
                     /\ calls[s].pc = "conn_poll"
                     /\ calls[s].initFailed
                     /\ sessions[calls[s].clientId] = "failed"
                     /\ clients[calls[s].clientId] = "none"

\* C33: in every reachable state every tenant has at most one
\* WhatsAppSession row.
C33_OneSessionRow == \A c \in Clients : sessionDups[c] = 0

\* C34: once disconnectWhatsApp has completed for a tenant (no session row,
\* no handle, no stored message, no disconnect still in progress), no step
\* other than a new connection attempt gives the tenant a Message row or a
\* session row again.
C34_NothingAfterDisconnect ==
    [][\A c \in Clients :
          (/\ sessions[c] = "absent"
           /\ clients[c] = "none"
           /\ {r \in messages : r.clientId = c} = {}
           /\ \A s \in Slots :
                 calls[s].op = "disconnectWhatsApp" => calls[s].pc = "done")
          => /\ {r \in messages' : r.clientId = c} = {}
             /\ \/ sessions'[c] = "absent"
                \/ \E s \in Slots :
                      /\ calls'[s] # calls[s]
                      /\ \/ calls[s].op = "connectWhatsApp"
                         \/ calls'[s].op = "checkAndReconnectClient"]_vars

\* C35: at most one provider connection with wired event handlers exists
\* per tenant: no connection that is absent from the registry is still
\* alive.
C35_NoOrphanConnection == orphans = {}

\* C36: fan-out is isolated per tenant: whatever a front-end socket is
\* sent in a step belongs to a tenant whose room the socket is in.
C36_FanOutIsolated ==
    [][\A k \in Sockets :
          \A e \in received'[k] \ received[k] : e.clientId \in rooms[k]]_vars

\* C37: a sendMessage call that returns anything but success has left the
\* balance and the ledger as they were: it has debited nothing and written
\* no ledger entry.
C37_FailureDebitsNothing ==
    \A s \in Slots :
        (/\ calls[s].pc = "done"
         /\ calls[s].op = "sendMessage"
         /\ calls[s].result # "success")
        => /\ calls[s].debited = 0
           /\ calls[s].ledgered = <<>>

\* C38: the final status update of sendMessage does not take a message
\* back from DELIVERED or READ: a row of the sent message that has one of
\* these two statuses when the update runs is the same after it.
C38_SentNeverRegresses ==
    [][\A s \in Slots :
          (/\ calls[s].op = "sendMessage"
           /\ calls[s].pc = "status"
           /\ calls'[s].pc = "done")
          => \A r \in messages :
                (r.messageId = calls[s].sentMsg
                   /\ r.status \in {"DELIVERED", "READ"})
                => r \in messages']_vars

\* C39: every inbound provider message of a tenant is answered by at most
\* one auto-reply: the provider has at most one message that the handler
\* sent in reply to it.
C39_OneAutoReplyPerMessage ==
    \A m \in provMsgs :
        ~m.fromMe
        => Cardinality({r \in provMsgs : r.replyTo = m.messageId}) <= 1

\* C40: auto-reply chains end: from some point on no tenant has a message
\* of the chain left to answer, so no further auto-reply is sent.
C40_AutoRepliesEnd == <>[](inbound = {})
====
